---- MODULE Spec2Model ----
(***************************************************************************)
(* The two Tornado applications of applications/async-web-server.ipynb,    *)
(* both listening on the notebook's single event loop:                     *)
(*   port 8000  FastHandler, and the FibHandler that computes fib in the   *)
(*              handler (blocking the loop);                               *)
(*   port 9000  MainHandler, and the FibHandler that submits fib to the    *)
(*              Dask client and awaits the future.                         *)
(* A request handler runs on the loop thread from the moment Tornado       *)
(* invokes get() until it either suspends at an await or returns; the      *)
(* variable loop names the request whose handler holds the thread.         *)
(* The Dask cluster runs in other processes: its workers step             *)
(* independently of the loop.                                              *)
(***************************************************************************)
EXTENDS Integers, Sequences, FiniteSets, TLC

VARIABLES
    pc,       \* pc[r]: where request r and its handler are
    url,      \* url[r]: the port and path request r was fetched with
    loop,     \* the request whose handler is running on the event loop thread, or NoReq
    future,   \* future[r]: the key of the Dask future of FibHandler.get for which the
              \* client still counts a reference, or NoTask
    result,   \* result[r]: FibHandler.get's local variable result, or NoValue
    status,   \* status[r]: the handler's HTTP status code
    body,     \* body[r]: what the handler has written with self.write
    log,      \* history: <<"submit", r>> and <<"sent", r>>, in the order they happened
    task,     \* task[k]: the Dask scheduler's state of the task with key k
    queue,    \* the keys waiting for a worker, oldest first
    worker,   \* worker[w]: the key worker w is computing, or NoTask
    data,     \* data[k]: the value a worker stored for key k, or NoValue
    clock,    \* the time elapsed, in single-call times of fib on a worker
    began,    \* began[w]: the time at which worker w took the task it is computing
    defs,     \* the kernel's names: how tornado is bound, whether client is, the
              \* definitions fib and f are bound to, the cell whose definition each
              \* of FibHandler, make_app, app carries (0: not bound), and how the
              \* kernel names the code of a cell
    apps,     \* apps[p]: the cell whose make_app() built the application listening on port p (0: none)
    meas,     \* meas[m]: the m-th call of measure at a time: its position, arguments and locals
    lat,      \* the call of f (the roundtrip latency) in progress: its position and locals
    fs,       \* fs[f]: the text of the file data/<f>.csv, or Absent
    dir,      \* the directory data/: made or not, its files in the order it lists them
    env,      \* the messy-data notebook's names: dd and pd imported or not, what
              \* read_data is bound to, and files
    rd,       \* the call of read_data in progress: its position, argument and local df
    df,       \* the messy-data notebook's global df
    out       \* what the notebook's last cell displayed or raised

vars == <<pc, url, loop, future, result, status, body, log, task, queue, worker, data, clock,
          began, defs, apps, meas, lat, fs, dir, env, rd, df, out>>

\* The state of the web-server notebook, and that of the messy-data notebook.
web == <<pc, url, loop, future, result, status, body, log, task, queue, worker, data, clock,
         began, defs, apps, meas, lat>>
messy == <<fs, dir, env, rd, df, out>>

\* The names the web-server notebook's cells define, the listening
\* applications and the coroutines measure and f.
kernel == <<defs, apps, meas, lat>>

\* ------------------------------------------------------------------ bounds
NumReq == 3
NumWorkers == 2
MaxArg == 2
MaxArgFib == 10
NumReqFib == 2
NumMeas == 2
MaxDefs == 3

Req == 1..NumReq
Meas == 1..NumMeas
Workers == 1..NumWorkers
NoReq == 0
NoTask == -1
NoValue == -1

\* ------------------------------------------------------- text and numbers
DigitChars == <<"0", "1", "2", "3", "4", "5", "6", "7", "8", "9">>

IsDigit(c) == \E d \in 1..10 : DigitChars[d] = c

DigitVal(c) == (CHOOSE d \in 1..10 : DigitChars[d] = c) - 1

RECURSIVE DigitsVal(_)
DigitsVal(s) ==
    IF Len(s) = 0 THEN 0
    ELSE DigitsVal(SubSeq(s, 1, Len(s) - 1)) * 10 + DigitVal(s[Len(s)])

\* int(n) of a str: an optional sign, then decimal digits (leading zeros allowed).
int(s) == IF Len(s) > 0 /\ s[1] = "-" THEN 0 - DigitsVal(Tail(s)) ELSE DigitsVal(s)

\* str(k) of an int: decimal digits, no leading zero, "-" for a negative number.
RECURSIVE StrNat(_)
StrNat(k) ==
    IF k < 10 THEN <<DigitChars[k + 1]>>
    ELSE StrNat(k \div 10) \o <<DigitChars[(k % 10) + 1]>>

str(k) == IF k < 0 THEN <<"-">> \o StrNat(0 - k) ELSE StrNat(k)

\* Mutant of fib: the base case returns 1 for every n < 2.
RECURSIVE fib_base1(_)
fib_base1(n) == IF n < 2 THEN 1 ELSE fib_base1(n - 1) + fib_base1(n - 2)

\* def fib(n): the same function in both cells.
RECURSIVE fib(_)
fib(n) == IF n < 2 THEN n ELSE fib(n - 1) + fib(n - 2)

\* The arguments of the calls of fib that the call fib(n) makes itself.
fib_calls(n) == IF n < 2 THEN {} ELSE {n - 1, n - 2}

Hello == <<"H", "e", "l", "l", "o", "!">>
HelloWorld == <<"H", "e", "l", "l", "o", ",", " ", "w", "o", "r", "l", "d">>

\* ------------------------------------------------------------------- URLs
\* A URL is a port and a path; a path is /fast, or /fib/<param>.
FastPath == [route |-> "fast", param |-> <<>>]
FibPath(p) == [route |-> "fib", param |-> p]

\* The <param> strings requests are drawn from: the decimal strings of
\* 0..max ...
Params(max) == {str(k) : k \in 0..max}

\* ... one with a leading zero, and two strings the route does not match.
OddParams(max) == {<<"0">> \o str(max), <<"-", "1">>, <<>>}

Paths(max) == {FastPath} \cup {FibPath(p) : p \in Params(max)}

OddPaths(max) == {FibPath(p) : p \in OddParams(max)}

Ports == {8000, 9000}

\* Mutant of MatchesFib: the route r"/fib/(-?\d*)", which lets a sign and an
\* empty parameter through.
MatchesFib_signed(path) ==
    /\ path.route = "fib"
    /\ \A i \in 1..Len(path.param) :
          IsDigit(path.param[i]) \/ (i = 1 /\ path.param[i] = "-")

\* r"/fib/(\d+)": the parameter is a non-empty string of digits.
MatchesFib(path) ==
    /\ path.route = "fib"
    /\ Len(path.param) > 0
    /\ \A i \in 1..Len(path.param) : IsDigit(path.param[i])

\* The application make_app() returns, as the handler class it routes a path
\* to: make_app of the first cell (c = 1) routes to the classes that cell
\* defined, make_app of the second cell to the second cell's.
make_app(c, path) ==
    IF path.route = "fast" THEN (IF c = 1 THEN "FastHandler" ELSE "MainHandler")
    ELSE IF MatchesFib(path) THEN (IF c = 1 THEN "FibHandler" ELSE "FibHandlerAsync")
    ELSE "ErrorHandler"

Urls(max) == [port : Ports, path : Paths(max)]

NoUrl == [port |-> 0, path |-> FastPath]

\* How the kernel names the code of a cell, which is part of the pickled
\* bytes of a function the cell defines and so of the token in its tasks'
\* keys: by the execution (IPython's <ipython-input-N-...>: every run of a
\* cell gives its functions new bytes), or by a hash of the cell's source
\* (ipykernel 6 on: the same cell run again gives the same bytes).
Namings == {"execution", "source"}

\* The key of the task dask_client.submit(fib, n): the name of the function
\* with a token of the function and of the argument; g stands for the
\* token of the definition fib is bound to.
FibKey(g, n) == (g - 1) * (MaxArgFib + 1) + n

\* The keys of the tasks of fib.
FibKeys == 0..(MaxDefs * (MaxArgFib + 1) - 1)

\* The key of the task dask_client.submit(lambda x: x + 1, 10), g standing
\* for the token of the lambda of the definition f is bound to.
LambdaKey(g) == MaxDefs * (MaxArgFib + 1) + (g - 1)

Keys == 0..LambdaKey(MaxDefs)

\* The argument of the fib task with key k.
Arg(k) == k % (MaxArgFib + 1)

\* What a worker's call of the task with key k returns: fib of the task's
\* argument (every definition of fib is the same function), or the lambda on 10.
Run(k) == IF k \in FibKeys THEN fib(Arg(k)) ELSE 10 + 1

\* ------------------------------------- messy-data notebook: dates and names
\* datetime.date arithmetic: the proleptic Gregorian calendar.
IsLeap(y) == (y % 4 = 0 /\ y % 100 # 0) \/ y % 400 = 0

DaysInMonth(y, m) ==
    IF m = 2 THEN (IF IsLeap(y) THEN 29 ELSE 28)
    ELSE IF m \in {4, 6, 9, 11} THEN 30 ELSE 31

\* The first day of the month after d's.
NextMonth(d) ==
    IF d.month < 12 THEN [year |-> d.year, month |-> d.month + 1, day |-> 1]
    ELSE [year |-> d.year + 1, month |-> 1, day |-> 1]

\* date + i * datetime.timedelta(days=1), i >= 0: within the month, or on
\* from the first day of the next.
RECURSIVE AddDays(_, _)
AddDays(d, i) ==
    IF d.day + i <= DaysInMonth(d.year, d.month) THEN [d EXCEPT !.day = d.day + i]
    ELSE AddDays(NextMonth(d), i - (DaysInMonth(d.year, d.month) - d.day + 1))

\* The decimal digits of k, padded with zeros on the left to width w.
RECURSIVE PadLeft(_, _)
PadLeft(s, w) == IF Len(s) >= w THEN s ELSE PadLeft(<<"0">> \o s, w)

ZeroPad(k, w) == PadLeft(StrNat(k), w)

\* str(date): ISO 8601, YYYY-MM-DD.
IsoFormat(d) ==
    ZeroPad(d.year, 4) \o <<"-">> \o ZeroPad(d.month, 2) \o <<"-">> \o ZeroPad(d.day, 2)

\* Mutant of name: the month and the day are written without padding.
name_nopad(i) ==
    LET d == AddDays([year |-> 2000, month |-> 1, day |-> 1], i)
    IN  StrNat(d.year) \o <<"-">> \o StrNat(d.month) \o <<"-">> \o StrNat(d.day)

\* def name(i): str(datetime.date(2000, 1, 1) + i * datetime.timedelta(days=1))
name(i) == IsoFormat(AddDays([year |-> 2000, month |-> 1, day |-> 1], i))

\* ----------------------------------- messy-data notebook: files and frames
\* The columns of dask.datasets.timeseries() written with index=False.
Columns == <<"id", "name", "x", "y">>

\* dtypes = {'id': int, 'name': str, 'x': float, 'y': float}, and its keys.
dtypes(c) ==
    CASE c = "id" -> "int"
      [] c = "name" -> "str"
      [] OTHER -> "float"

\* A file: it exists or not; its text is a sequence of lines, a line a
\* sequence of comma-separated fields.
Absent == [exists |-> FALSE, lines |-> <<>>]
Text(lines) == [exists |-> TRUE, lines |-> lines]

\* A value of a frame; np.NaN.
Value(t, v) == [t |-> t, v |-> v]
NaN == Value("float", "nan")

\* The texts pandas parses as an int, and as a float (an empty field is NaN).
IntTexts == {"0", "1"}
FloatTexts == {"0", "1", "0.0", "1.0", ""}

\* pandas' conversion of a field to the dtype t succeeds.
Convertible(t, f) ==
    CASE t = "int" -> f \in IntTexts
      [] t = "float" -> f \in FloatTexts
      [] OTHER -> TRUE

\* The value pandas gives the field f under the dtype t.
Convert(t, f) ==
    CASE t = "int" -> Value("int", f)
      [] t = "float" /\ f = "" -> NaN
      [] t = "float" /\ f \in {"0", "0.0"} -> Value("float", "0.0")
      [] t = "float" -> Value("float", "1.0")
      [] f = "" -> NaN
      [] OTHER -> Value("str", f)

\* DataFrame.to_csv's text of a value.
FieldText(val) == IF val = NaN THEN "" ELSE val.v

\* A dataframe: its columns in order and its rows, a row holding one value
\* per column.
Frame(columns, rows) == [columns |-> columns, rows |-> rows]
NoFrame == Frame(<<>>, <<>>)

ColumnSet(frame) == {frame.columns[i] : i \in 1..Len(frame.columns)}

\* The position of column c in the frame (0: not a column of it).
ColumnAt(frame, c) ==
    IF c \in ColumnSet(frame)
    THEN CHOOSE i \in 1..Len(frame.columns) : frame.columns[i] = c
    ELSE 0

\* A line pandas skips (skip_blank_lines): nothing on it.
IsBlank(line) == line = <<"">>

NonBlank(lines) == SelectSeq(lines, LAMBDA l : ~IsBlank(l))

\* The outcome of a call: a value, or the exception raised.
Returned(frame) == [ok |-> TRUE, error |-> "", frame |-> frame]
Raised(error) == [ok |-> FALSE, error |-> error, frame |-> NoFrame]

\* pd.read_csv(file, names=names, dtype=dtypes), names = <<>> for no names:
\* the header is the first line that is not blank (or names), the lines after
\* it are the rows, every field converted to its column's dtype; dtypes of
\* columns the file does not have are ignored.
pd_read_csv(file, names) ==
    LET lines == NonBlank(file.lines)
        header == IF names # <<>> THEN names ELSE lines[1]
        records == IF names # <<>> THEN lines ELSE Tail(lines)
    IN  IF ~file.exists THEN Raised("FileNotFoundError")
        ELSE IF names = <<>> /\ lines = <<>> THEN Raised("EmptyDataError")
        ELSE IF \E i \in 1..Len(records) : Len(records[i]) > Len(header)
             THEN Raised("ParserError")
        ELSE IF \E i \in 1..Len(records) : \E j \in 1..Len(records[i]) :
                    ~Convertible(dtypes(header[j]), records[i][j])
             THEN Raised("ValueError")
        ELSE Returned(Frame(header,
                 [i \in 1..Len(records) |->
                     [j \in 1..Len(header) |->
                         IF j <= Len(records[i])
                         THEN Convert(dtypes(header[j]), records[i][j])
                         ELSE NaN]]))

\* df.to_csv(file, index=False): the header line, then a line per row.
to_csv(frame) ==
    Text(<<frame.columns>> \o
         [i \in 1..Len(frame.rows) |->
             [j \in 1..Len(frame.columns) |-> FieldText(frame.rows[i][j])]])

\* pd.read_csv(io.StringIO(''), names=dtypes.keys(), dtype=dtypes)
EmptyFrame == pd_read_csv(Text(<<>>), Columns).frame

\* df['y'] = np.NaN: a new last column, NaN in every row.
SetY(frame) ==
    Frame(Append(frame.columns, "y"),
          [i \in 1..Len(frame.rows) |-> Append(frame.rows[i], NaN)])

\* del df['y']
DelY(frame) ==
    LET keep == SelectSeq([j \in 1..Len(frame.columns) |-> j],
                          LAMBDA j : frame.columns[j] # "y")
    IN  Frame([k \in 1..Len(keep) |-> frame.columns[keep[k]]],
              [i \in 1..Len(frame.rows) |->
                  [k \in 1..Len(keep) |-> frame.rows[i][keep[k]]]])

\* Mutant of read_data: no try/except and no filling of y.
read_data_unguarded(file) == pd_read_csv(file, <<>>).frame

\* def read_data(filename), as a function of the file's contents.
read_data(file) ==
    LET r == pd_read_csv(file, <<>>)
        d == IF r.ok THEN r.frame ELSE EmptyFrame
    IN  IF "y" \notin ColumnSet(d) THEN SetY(d) ELSE d

\* ------------------------------------------------------------------ state
\* The bounds of the messy-data notebook: the partitions of the dataset (the
\* notebook has 30, one per day), the rows of a file, the days name is called on.
NumParts == 7
MaxRows == 2
MaxDay == 61

\* No call of read_data has been made.
NoCall == [pc |-> "idle", filename |-> <<>>, df |-> NoFrame,
           excepted |-> FALSE, filled |-> FALSE]

\* What the global df is bound to: nothing yet, the timeseries dataset (its
\* partitions), a pandas frame, one Delayed call of read_data on a file, a
\* list of such calls, or a Dask dataframe over files: built by dd.read_csv
\* or by dd.from_delayed, with its meta and the files of its partitions in
\* order.
Df(kind, parts, files, meta) ==
    [kind |-> kind, parts |-> parts, files |-> files, meta |-> meta]
NoDf == Df("none", <<>>, <<>>, <<>>)

\* The names of the messy-data notebook's kernel: dd and pd imported or not,
\* read_data unbound, the function or its delayed wrapper, and files bound
\* (globbed) or not, with the list it is bound to.
Env(dd, pd, rdata, globbed, files) ==
    [dd |-> dd, pd |-> pd, read_data |-> rdata, globbed |-> globbed, files |-> files]
NoEnv == Env(FALSE, FALSE, "unbound", FALSE, <<>>)

\* The directory data/: made or not, and the files it lists, in its order.
Dir(made, listing) == [made |-> made, listing |-> listing]
NoDir == Dir(FALSE, <<>>)

\* What a cell displays: the frame or the count it evaluated to, or the
\* exception it raised.
Output(cell, r, count) ==
    [cell |-> cell, ok |-> r.ok, error |-> r.error, frame |-> r.frame, count |-> count]
NoOutput == Output("none", Returned(NoFrame), 0)

\* A call of the coroutine measure(url, n): where it is, its arguments, and
\* its locals futures (the requests it has fetched, in order), start and end.
Measure(at, u, n, futures, start, end) ==
    [pc |-> at, url |-> u, n |-> n, futures |-> futures, start |-> start, end |-> end]
NoMeasure == Measure("idle", NoUrl, 0, <<>>, 0, 0)

\* The names of the kernel. tornado: "unbound", "httpclient" (bound by
\* import tornado.httpclient alone) or "web" (tornado.web imported as well);
\* client: bound or not; fib: the definition fib is bound to (0: not bound),
\* which is the number of the run of `def fib` where the kernel names code by
\* the execution, and the cell of the def where it names it by the source; f:
\* the same for the f of the last cell and its lambda; FibHandler, make_app
\* and app: all bound by cell c (0: none of them bound); naming: how the
\* kernel names the code of a cell.
Defs(imported, fetcher, g, c, l, naming) ==
    [tornado |-> imported, client |-> fetcher, fib |-> g,
     FibHandler |-> c, make_app |-> c, app |-> c, f |-> l, naming |-> naming]

\* The coroutine f(): where it is, and its locals start, result and end.
Latency(at, start, res, end) == [pc |-> at, start |-> start, result |-> res, end |-> end]
NoLatency == Latency("idle", 0, NoValue, 0)

\* No request fetched yet, measure and f not called, the Dask cluster idle.
InitLoop ==
    /\ meas = [m \in Meas |-> NoMeasure]
    /\ lat = NoLatency
    /\ pc = [r \in Req |-> "new"]
    /\ url = [r \in Req |-> NoUrl]
    /\ loop = NoReq
    /\ future = [r \in Req |-> NoTask]
    /\ result = [r \in Req |-> NoValue]
    /\ status = [r \in Req |-> 0]
    /\ body = [r \in Req |-> <<>>]
    /\ log = <<>>
    /\ task = [k \in Keys |-> "absent"]
    /\ queue = <<>>
    /\ worker = [w \in Workers |-> NoTask]
    /\ data = [k \in Keys |-> NoValue]
    /\ clock = 0
    /\ began = [w \in Workers |-> 0]

\* The web-server notebook once its cells have run in order, once each: both
\* applications listen, the first cell's on port 8000 and the second cell's on
\* port 9000, and fib is bound to the definition of the second cell, the
\* second one run; the last cell, of f, has not run. No step of the
\* specifications that start here and run no cell looks at how the kernel
\* names code.
InitWeb ==
    /\ InitLoop
    /\ defs = Defs("web", TRUE, 2, 2, 0, "source")
    /\ apps = [p \in Ports |-> IF p = 8000 THEN 1 ELSE 2]

\* The messy-data notebook before its first cell.
InitIdle ==
    /\ fs = [f \in {} |-> Absent]
    /\ dir = NoDir
    /\ env = NoEnv
    /\ rd = NoCall
    /\ df = NoDf
    /\ out = NoOutput

Init == InitWeb /\ InitIdle

dask == <<task, queue, worker, data, clock, began>>

\* The cell that built the application listening on port p.
AppAt(p) == IF p \in Ports THEN apps[p] ELSE 0

\* Mutant of Handler: the application looks its handler classes up by name
\* when the request arrives, finding the latest definitions.
Handler_by_name(r) == make_app(defs.FibHandler, url[r].path)

\* The handler class the application listening on url[r].port routes r to.
Handler(r) == make_app(AppAt(url[r].port), url[r].path)

\* Mutant of LoopFree: each application has an event loop of its own, the
\* port-8000 handlers not holding the thread the other callbacks run on.
LoopFree_per_app == IF loop = NoReq THEN TRUE ELSE url[loop].port = 8000

\* The event loop is free to run a callback.
LoopFree == loop = NoReq

\* ----------------------------------------------------------------- client
\* client.fetch(url): runs in a coroutine on the event loop, so only while no
\* handler holds the thread. Requests are numbered in the order fetched.
fetch(r, u) ==
    /\ LoopFree
    /\ pc[r] = "new"
    /\ \A q \in Req : q < r => pc[q] # "new"
    /\ pc' = [pc EXCEPT ![r] = "issued"]
    /\ url' = [url EXCEPT ![r] = u]
    /\ UNCHANGED <<loop, future, result, status, body, log, dask, messy, kernel>>

\* Mutant of Invoke: get() is invoked while another handler is running (a
\* server that runs handlers on several threads).
Invoke_preempt(r) ==
    /\ pc[r] = "issued"
    /\ loop' = r
    /\ pc' = [pc EXCEPT ![r] = "started"]
    /\ status' = [status EXCEPT ![r] = 200]
    /\ UNCHANGED <<url, future, result, body, log, dask, messy, kernel>>

\* Mutant of Invoke: the server takes a new request only when no handler is
\* suspended at an await.
Invoke_serial(r) ==
    /\ LoopFree
    /\ \A q \in Req : pc[q] # "awaiting"
    /\ pc[r] = "issued"
    /\ loop' = r
    /\ pc' = [pc EXCEPT ![r] = "started"]
    /\ status' = [status EXCEPT ![r] = 200]
    /\ UNCHANGED <<url, future, result, body, log, dask, messy, kernel>>

\* Tornado invokes the handler's get() for a request that has arrived: the
\* handler takes the loop thread. A new RequestHandler has status 200.
Invoke(r) ==
    /\ LoopFree
    /\ pc[r] = "issued"
    /\ loop' = r
    /\ pc' = [pc EXCEPT ![r] = "started"]
    /\ status' = [status EXCEPT ![r] = 200]
    /\ UNCHANGED <<url, future, result, body, log, dask, messy, kernel>>

\* get() has returned (or raised): Tornado finishes the request, the response
\* is sent and the loop thread is free. The handler's future goes out of scope
\* with get()'s frame; its key is released by a callback the loop runs later.
Finish(r) ==
    /\ loop = r
    /\ pc[r] \in {"written", "raised"}
    /\ pc' = [pc EXCEPT ![r] = "done"]
    /\ loop' = NoReq
    /\ log' = Append(log, <<"sent", r>>)
    /\ UNCHANGED <<url, future, result, status, body, dask, messy, kernel>>

\* get() of request r has returned normally and the release of its future is
\* a callback waiting on the event loop.
Releasing(r) == pc[r] = "done" /\ future[r] # NoTask /\ status[r] = 200

\* Mutant of dec_ref: the release of one future drops the key even when the
\* future of another request refers to it.
dec_ref_release_always(r) ==
    /\ LoopFree
    /\ Releasing(r)
    /\ future' = [future EXCEPT ![r] = NoTask]
    /\ task' = [task EXCEPT ![future[r]] = "absent"]
    /\ data' = [data EXCEPT ![future[r]] = NoValue]
    /\ UNCHANGED <<pc, url, loop, result, status, body, log, queue, worker, clock, began,
                   messy, kernel>>

\* The release of the future get() held (Future.__del__ adds the callback
\* Client._dec_ref to the event loop): the client counts one reference to the
\* key less and, no other future referring to it, drops the key, which the
\* scheduler then forgets with its value. There is no release after get() was
\* left by the exception of the future: the exception, which the client keeps
\* for the key, holds through its traceback the frame that awaited and the
\* future in it, so the key of a failed task stays with the client.
dec_ref(r) ==
    /\ LoopFree
    /\ Releasing(r)
    /\ future' = [future EXCEPT ![r] = NoTask]
    /\ LET k == future[r] IN
       IF \A q \in Req \ {r} : future[q] # k
       THEN /\ task' = [task EXCEPT ![k] = "absent"]
            /\ data' = [data EXCEPT ![k] = NoValue]
       ELSE UNCHANGED <<task, data>>
    /\ UNCHANGED <<pc, url, loop, result, status, body, log, queue, worker, clock, began,
                   messy, kernel>>

\* ---------------------------------------------------- port 8000, first cell
\* FastHandler.get: self.write("Hello!")
FastHandler_get(r) ==
    /\ loop = r
    /\ pc[r] = "started"
    /\ Handler(r) = "FastHandler"
    /\ body' = [body EXCEPT ![r] = body[r] \o Hello]
    /\ pc' = [pc EXCEPT ![r] = "written"]
    /\ UNCHANGED <<url, loop, future, result, status, log, dask, messy, kernel>>

\* Mutant of FibHandler_compute: fib is computed off the loop thread, which
\* the handler gives back while it waits.
FibHandler_compute_yield(r) ==
    /\ loop = r
    /\ pc[r] = "started"
    /\ Handler(r) = "FibHandler"
    /\ result' = [result EXCEPT ![r] = fib(int(url[r].path.param))]
    /\ pc' = [pc EXCEPT ![r] = "computed"]
    /\ loop' = NoReq
    /\ UNCHANGED <<url, future, status, body, log, dask, messy, kernel>>

\* FibHandler.get, first statement: result = fib(int(n)), computed on the
\* loop thread.
FibHandler_compute(r) ==
    /\ loop = r
    /\ pc[r] = "started"
    /\ Handler(r) = "FibHandler"
    /\ result' = [result EXCEPT ![r] = fib(int(url[r].path.param))]
    /\ pc' = [pc EXCEPT ![r] = "computed"]
    /\ UNCHANGED <<url, loop, future, status, body, log, dask, messy, kernel>>

\* FibHandler.get, second statement: self.write(str(result))
FibHandler_write(r) ==
    /\ loop = r
    /\ pc[r] = "computed"
    /\ Handler(r) = "FibHandler"
    /\ body' = [body EXCEPT ![r] = body[r] \o str(result[r])]
    /\ pc' = [pc EXCEPT ![r] = "written"]
    /\ UNCHANGED <<url, loop, future, result, status, log, dask, messy, kernel>>

\* A path no route matches: Tornado answers 404 without calling a handler
\* of the notebook.
NotFound(r) ==
    /\ loop = r
    /\ pc[r] = "started"
    /\ Handler(r) = "ErrorHandler"
    /\ status' = [status EXCEPT ![r] = 404]
    /\ pc' = [pc EXCEPT ![r] = "raised"]
    /\ UNCHANGED <<url, loop, future, result, body, log, dask, messy, kernel>>

\* --------------------------------------------------- port 9000, second cell
\* Mutant of MainHandler_get: the text ends with the number of requests
\* suspended at the moment.
MainHandler_get_counting(r) ==
    /\ loop = r
    /\ pc[r] = "started"
    /\ Handler(r) = "MainHandler"
    /\ body' = [body EXCEPT ![r] =
                  body[r] \o HelloWorld \o str(Cardinality({q \in Req : pc[q] = "awaiting"}))]
    /\ pc' = [pc EXCEPT ![r] = "written"]
    /\ UNCHANGED <<url, loop, future, result, status, log, dask, messy, kernel>>

\* MainHandler.get: self.write("Hello, world")
MainHandler_get(r) ==
    /\ loop = r
    /\ pc[r] = "started"
    /\ Handler(r) = "MainHandler"
    /\ body' = [body EXCEPT ![r] = body[r] \o HelloWorld]
    /\ pc' = [pc EXCEPT ![r] = "written"]
    /\ UNCHANGED <<url, loop, future, result, status, log, dask, messy, kernel>>

\* The key dask_client.submit(fib, n) gives the task: submit's default is
\* pure=True, which names the task by the function fib is bound to at the
\* call and by its arguments, so submissions of the same function and the
\* same n share one task while the client holds a future of it.
SubmitKey(n) == FibKey(defs.fib, n)

\* Mutant of FibHandler_submit: submit returns only once a worker is free for
\* the task.
FibHandler_submit_bounded(r) ==
    /\ loop = r
    /\ pc[r] = "started"
    /\ Handler(r) = "FibHandlerAsync"
    /\ Cardinality({k \in Keys : task[k] \in {"queued", "running"}}) < NumWorkers
    /\ LET k == SubmitKey(int(url[r].path.param)) IN
        /\ future' = [future EXCEPT ![r] = k]
        /\ IF task[k] = "absent"
           THEN /\ task' = [task EXCEPT ![k] = "queued"]
                /\ queue' = Append(queue, k)
           ELSE UNCHANGED <<task, queue>>
    /\ pc' = [pc EXCEPT ![r] = "submitted"]
    /\ log' = Append(log, <<"submit", r>>)
    /\ UNCHANGED <<url, loop, result, status, body, worker, data, clock, began, messy, kernel>>

\* future = dask_client.submit(fib, int(n)): returns at once with a future;
\* a task the scheduler does not hold yet joins the queue.
FibHandler_submit(r) ==
    /\ loop = r
    /\ pc[r] = "started"
    /\ Handler(r) = "FibHandlerAsync"
    /\ LET k == SubmitKey(int(url[r].path.param)) IN
        /\ future' = [future EXCEPT ![r] = k]
        /\ IF task[k] = "absent"
           THEN /\ task' = [task EXCEPT ![k] = "queued"]
                /\ queue' = Append(queue, k)
           ELSE UNCHANGED <<task, queue>>
    /\ pc' = [pc EXCEPT ![r] = "submitted"]
    /\ log' = Append(log, <<"submit", r>>)
    /\ UNCHANGED <<url, loop, result, status, body, worker, data, clock, began, messy, kernel>>

\* Mutant of FibHandler_await: waiting for the future without giving the loop
\* thread back (a blocking future.result() in place of the await).
FibHandler_await_blocking(r) ==
    /\ loop = r
    /\ pc[r] = "submitted"
    /\ pc' = [pc EXCEPT ![r] = "awaiting"]
    /\ UNCHANGED <<url, loop, future, result, status, body, log, dask, messy, kernel>>

\* await future, suspending: the coroutine gives the loop thread back.
FibHandler_await(r) ==
    /\ loop = r
    /\ pc[r] = "submitted"
    /\ pc' = [pc EXCEPT ![r] = "awaiting"]
    /\ loop' = NoReq
    /\ UNCHANGED <<url, future, result, status, body, log, dask, messy, kernel>>

\* Mutant of Awaited: the coroutine is woken by any future that has finished.
Awaited_any(r) ==
    IF \E k \in Keys : task[k] = "finished"
    THEN CHOOSE k \in Keys : task[k] = "finished"
    ELSE future[r]

\* The future r's coroutine is woken by.
Awaited(r) == future[r]

\* Mutant of FibHandler_resume: the coroutine is resumed without its future
\* having finished.
FibHandler_resume_early(r) ==
    /\ LoopFree
    /\ pc[r] = "awaiting"
    /\ loop' = r
    /\ result' = [result EXCEPT ![r] = data[Awaited(r)]]
    /\ pc' = [pc EXCEPT ![r] = "resumed"]
    /\ UNCHANGED <<url, future, status, body, log, dask, messy, kernel>>

\* Mutant of FibHandler_resume: responses in the order of submission, a
\* coroutine being resumed only once every request submitted before it has
\* been answered.
FibHandler_resume_inorder(r) ==
    /\ LoopFree
    /\ pc[r] = "awaiting"
    /\ task[Awaited(r)] = "finished"
    /\ \A i \in 1..Len(log) :
          (log[i][1] = "submit" /\ log[i][2] # r
             /\ \E j \in 1..Len(log) : j > i /\ log[j] = <<"submit", r>>)
          => pc[log[i][2]] = "done"
    /\ loop' = r
    /\ result' = [result EXCEPT ![r] = data[Awaited(r)]]
    /\ pc' = [pc EXCEPT ![r] = "resumed"]
    /\ UNCHANGED <<url, future, status, body, log, dask, messy, kernel>>

\* Mutant of FibHandler_resume: the coroutine is resumed on a thread of its
\* own as soon as its future has finished, whatever the loop is running.
FibHandler_resume_threaded(r) ==
    /\ pc[r] = "awaiting"
    /\ task[Awaited(r)] = "finished"
    /\ loop' = r
    /\ result' = [result EXCEPT ![r] = data[Awaited(r)]]
    /\ pc' = [pc EXCEPT ![r] = "resumed"]
    /\ UNCHANGED <<url, future, status, body, log, dask, messy, kernel>>

\* result = await future, resuming: the loop runs the coroutine again once its
\* future has finished, and the await gives the future's value.
FibHandler_resume(r) ==
    /\ LoopFree
    /\ pc[r] = "awaiting"
    /\ task[Awaited(r)] = "finished"
    /\ loop' = r
    /\ result' = [result EXCEPT ![r] = data[Awaited(r)]]
    /\ pc' = [pc EXCEPT ![r] = "resumed"]
    /\ UNCHANGED <<url, future, status, body, log, dask, messy, kernel>>

\* await future, the computation having raised: the exception leaves get()
\* and Tornado answers 500; get() has written nothing.
FibHandler_raise(r) ==
    /\ LoopFree
    /\ pc[r] = "awaiting"
    /\ task[Awaited(r)] = "erred"
    /\ loop' = r
    /\ status' = [status EXCEPT ![r] = 500]
    /\ pc' = [pc EXCEPT ![r] = "raised"]
    /\ UNCHANGED <<url, future, result, body, log, dask, messy, kernel>>

\* self.write(str(result)) of the second FibHandler
FibHandler_respond(r) ==
    /\ loop = r
    /\ pc[r] = "resumed"
    /\ body' = [body EXCEPT ![r] = body[r] \o str(result[r])]
    /\ pc' = [pc EXCEPT ![r] = "written"]
    /\ UNCHANGED <<url, loop, future, result, status, log, dask, messy, kernel>>

\* ------------------------------------------------------------ Dask cluster
\* Mutant of Worker_start: only the first worker ever takes a task.
Worker_start_single(w) ==
    /\ w = 1
    /\ worker[w] = NoTask
    /\ queue # <<>>
    /\ worker' = [worker EXCEPT ![w] = Head(queue)]
    /\ queue' = Tail(queue)
    /\ task' = [task EXCEPT ![Head(queue)] = "running"]
    /\ began' = [began EXCEPT ![w] = clock]
    /\ UNCHANGED <<pc, url, loop, future, result, status, body, log, data, clock, messy, kernel>>

\* An idle worker takes the oldest queued task.
Worker_start(w) ==
    /\ worker[w] = NoTask
    /\ queue # <<>>
    /\ worker' = [worker EXCEPT ![w] = Head(queue)]
    /\ queue' = Tail(queue)
    /\ task' = [task EXCEPT ![Head(queue)] = "running"]
    /\ began' = [began EXCEPT ![w] = clock]
    /\ UNCHANGED <<pc, url, loop, future, result, status, body, log, data, clock, messy, kernel>>

\* Mutant of Worker_finish: the value is stored but the scheduler is never
\* told, so the task stays running.
Worker_finish_silent(w) ==
    /\ worker[w] # NoTask
    /\ data' = [data EXCEPT ![worker[w]] = Run(worker[w])]
    /\ worker' = [worker EXCEPT ![w] = NoTask]
    /\ UNCHANGED <<pc, url, loop, future, result, status, body, log, task, queue, clock, began, messy, kernel>>

\* The worker's call fib(n) returns: the value is stored under the task's key.
Worker_finish(w) ==
    /\ worker[w] # NoTask
    /\ data' = [data EXCEPT ![worker[w]] = Run(worker[w])]
    /\ task' = [task EXCEPT ![worker[w]] = "finished"]
    /\ worker' = [worker EXCEPT ![w] = NoTask]
    /\ UNCHANGED <<pc, url, loop, future, result, status, body, log, queue, clock, began, messy, kernel>>

\* Mutant of Worker_raise: the failure takes the other workers' tasks with it.
Worker_raise_all(w) ==
    /\ worker[w] # NoTask
    /\ task' = [k \in Keys |-> IF task[k] = "running" THEN "erred" ELSE task[k]]
    /\ worker' = [v \in Workers |-> NoTask]
    /\ UNCHANGED <<pc, url, loop, future, result, status, body, log, queue, data, clock, began, messy, kernel>>

\* The worker's call raises (or the worker dies computing it).
Worker_raise(w) ==
    /\ worker[w] # NoTask
    /\ task' = [task EXCEPT ![worker[w]] = "erred"]
    /\ worker' = [worker EXCEPT ![w] = NoTask]
    /\ UNCHANGED <<pc, url, loop, future, result, status, body, log, queue, data, clock, began, messy, kernel>>

\* ---------------------------------------------------------- specification
Handlers(r) ==
    \/ Invoke(r)
    \/ FastHandler_get(r)
    \/ FibHandler_compute(r)
    \/ FibHandler_write(r)
    \/ MainHandler_get(r)
    \/ FibHandler_submit(r)
    \/ FibHandler_await(r)
    \/ FibHandler_resume(r)
    \/ FibHandler_raise(r)
    \/ FibHandler_respond(r)
    \/ Finish(r)
    \/ dec_ref(r)

Cluster(w) ==
    \/ Worker_start(w)
    \/ Worker_finish(w)
    \/ Worker_raise(w)

Next ==
    \/ \E r \in Req, u \in Urls(MaxArg) : fetch(r, u)
    \/ \E r \in Req : Handlers(r)
    \/ \E w \in Workers : Cluster(w)

Spec == Init /\ [][Next]_vars

\* The handlers one request at a time, over a wider range of paths: what a
\* response is as a function of the URL.
Quiet == \A q \in Req : pc[q] \in {"new", "done"}

NextFib ==
    \/ \E r \in 1..NumReqFib, u \in Urls(MaxArgFib) \cup [port : Ports, path : OddPaths(MaxArgFib)] :
          Quiet /\ fetch(r, u)
    \/ \E r \in Req : Handlers(r) \/ NotFound(r)
    \/ \E w \in Workers : Cluster(w)

SpecFib == Init /\ [][NextFib]_vars

\* The experiment `await measure('http://localhost:9000/fib/28', n=20)` with
\* time counted in single-call times: every call of fib on a worker takes one
\* unit, the steps of the event loop and of the scheduler take none. The
\* requests are fetched together at time 0.
AsyncFibUrls == [port : {9000}, path : {FibPath(p) : p \in Params(MaxArg)}]

\* The steps of the port-9000 FibHandler, with no failure.
AsyncFibHandler(r) ==
    \/ Invoke(r)
    \/ FibHandler_submit(r)
    \/ FibHandler_await(r)
    \/ FibHandler_resume(r)
    \/ FibHandler_respond(r)
    \/ Finish(r)
    \/ dec_ref(r)

\* The call of fib worker w is running has taken its single-call time: it was
\* started before the present time.
Due(w) == worker[w] # NoTask /\ began[w] < clock

\* There is something to do that takes no time: a handler to invoke, run or
\* resume, a future to release, a queued task an idle worker can take, or a
\* call that is due to return.
Urgent ==
    \/ loop # NoReq
    \/ \E r \in Req : pc[r] = "issued"
    \/ \E r \in Req : Releasing(r)
    \/ \E r \in Req : pc[r] = "awaiting" /\ task[Awaited(r)] \in {"finished", "erred"}
    \/ \E w \in Workers : ENABLED Worker_start(w)
    \/ \E w \in Workers : Due(w)

\* One single-call time passes: the calls of fib that are running become due.
\* Each of them returns in a step of its own (Worker_finish), in any order,
\* and the event loop runs between two returns.
Tick ==
    /\ ~Urgent
    /\ \E w \in Workers : worker[w] # NoTask
    /\ clock' = clock + 1
    /\ UNCHANGED <<pc, url, loop, future, result, status, body, log, task, queue, worker, data,
                   began, messy, kernel>>

NextTimed ==
    \/ \E r \in Req, u \in AsyncFibUrls : clock = 0 /\ fetch(r, u)
    \/ \E r \in Req : AsyncFibHandler(r)
    \/ \E w \in Workers : Worker_start(w)
    \/ \E w \in Workers : Due(w) /\ Worker_finish(w)
    \/ Tick

SpecTimed == Init /\ [][NextTimed]_vars

\* The experiment `await measure('http://localhost:8000/fib/28', n=100)` with
\* time counted in single-call times: the call of fib in the handler takes one
\* unit, the other steps of the event loop take none. The requests are fetched
\* together at time 0.
BlockingFibUrls == [port : {8000}, path : {FibPath(p) : p \in Params(MaxArg)}]

\* Mutant of FibHandler_compute_timed: a value of fib computed for an earlier
\* request is kept and a later request for the same n takes no time.
FibHandler_compute_timed_cached(r) ==
    /\ loop = r
    /\ pc[r] = "started"
    /\ Handler(r) = "FibHandler"
    /\ result' = [result EXCEPT ![r] = fib(int(url[r].path.param))]
    /\ pc' = [pc EXCEPT ![r] = "computed"]
    /\ clock' = IF \E q \in Req \ {r} : /\ url[q] = url[r]
                                         /\ pc[q] \in {"computed", "written", "done"}
                THEN clock ELSE clock + 1
    /\ UNCHANGED <<url, loop, future, status, body, log, task, queue, worker, data, began, messy, kernel>>

\* result = fib(int(n)) on the loop thread, taking one single-call time.
FibHandler_compute_timed(r) ==
    /\ loop = r
    /\ pc[r] = "started"
    /\ Handler(r) = "FibHandler"
    /\ result' = [result EXCEPT ![r] = fib(int(url[r].path.param))]
    /\ pc' = [pc EXCEPT ![r] = "computed"]
    /\ clock' = clock + 1
    /\ UNCHANGED <<url, loop, future, status, body, log, task, queue, worker, data, began, messy, kernel>>

\* The steps of the port-8000 FibHandler.
BlockingFibHandler(r) ==
    \/ Invoke(r)
    \/ FibHandler_compute_timed(r)
    \/ FibHandler_write(r)
    \/ Finish(r)

NextBlocking ==
    \/ \E r \in Req, u \in BlockingFibUrls : clock = 0 /\ fetch(r, u)
    \/ \E r \in Req : BlockingFibHandler(r)

SpecBlocking == Init /\ [][NextBlocking]_vars

\* The port-9000 application under load: any requests to /fast and /fib/<n>,
\* fetched at any time.
DispatchingUrls == [port : {9000}, path : Paths(MaxArg)]

\* The steps of the port-9000 handlers.
DispatchingHandler(r) ==
    \/ Invoke(r)
    \/ MainHandler_get(r)
    \/ FibHandler_submit(r)
    \/ FibHandler_await(r)
    \/ FibHandler_resume(r)
    \/ FibHandler_raise(r)
    \/ FibHandler_respond(r)
    \/ Finish(r)
    \/ dec_ref(r)

NextDispatching ==
    \/ \E r \in Req, u \in DispatchingUrls : fetch(r, u)
    \/ \E r \in Req : DispatchingHandler(r)
    \/ \E w \in Workers : Cluster(w)

\* The event loop runs every callback that stays ready: a handler to invoke,
\* a coroutine to run on or to resume. An idle worker takes a queued task, and
\* a call of fib on a worker ends, by returning or by raising.
Fairness ==
    /\ \A r \in Req : WF_vars(DispatchingHandler(r))
    /\ \A w \in Workers : WF_vars(Worker_start(w))
    /\ \A w \in Workers : WF_vars(Worker_finish(w) \/ Worker_raise(w))

SpecDispatching == Init /\ [][NextDispatching]_vars /\ Fairness

\* The first cell: it imports tornado.ioloop and tornado.web, defines fib,
\* FibHandler, FastHandler and make_app, builds app = make_app() from the
\* classes it has just defined and listens on port 8000. A cell runs on the
\* event loop. Run again, it rebinds the names (fib to a new function) and
\* app.listen(8000) raises, the port being taken.
first_cell ==
    /\ LoopFree
    /\ defs.naming = "execution" => defs.fib < MaxDefs
    /\ defs' = [defs EXCEPT !.tornado = "web",
                            !.fib = IF defs.naming = "execution" THEN @ + 1 ELSE 1,
                            !.FibHandler = 1, !.make_app = 1, !.app = 1]
    /\ apps' = IF apps[8000] = 0 THEN [apps EXCEPT ![8000] = defs'.make_app] ELSE apps
    /\ UNCHANGED <<pc, url, loop, future, result, status, body, log, dask, meas, lat, messy>>

\* The cell of the client: import asyncio, import tornado.httpclient (which
\* binds the name tornado), client = tornado.httpclient.AsyncHTTPClient(),
\* and the definition of measure.
client_cell ==
    /\ LoopFree
    /\ defs' = [defs EXCEPT !.tornado = IF @ = "unbound" THEN "httpclient" ELSE @,
                            !.client = TRUE]
    /\ UNCHANGED <<pc, url, loop, future, result, status, body, log, dask, apps, meas, lat,
                   messy>>

\* The later cell: it defines fib, FibHandler, MainHandler and make_app again,
\* builds app = make_app() and listens on port 9000. It imports nothing.
\* def fib binds fib; class FibHandler(tornado.web.RequestHandler) then raises
\* NameError in a kernel where tornado is not bound, which ends the cell with
\* no other name bound and nothing listening. Where only
\* `import tornado.httpclient` has bound tornado, the attribute tornado.web is
\* there if something in the kernel's process has imported tornado.web (the
\* Dask dashboard does) and the cell runs through, and AttributeError ends it
\* at the same place if not.
second_cell ==
    /\ LoopFree
    /\ defs.naming = "execution" => defs.fib < MaxDefs
    /\ \/ /\ defs.tornado # "unbound"
          /\ defs' = [defs EXCEPT !.fib = IF defs.naming = "execution" THEN @ + 1 ELSE 2,
                                  !.FibHandler = 2, !.make_app = 2, !.app = 2]
          /\ apps' = IF apps[9000] = 0 THEN [apps EXCEPT ![9000] = defs'.make_app] ELSE apps
       \/ /\ defs.tornado # "web"
          /\ defs' = [defs EXCEPT !.fib = IF defs.naming = "execution" THEN @ + 1 ELSE 2]
          /\ apps' = apps
    /\ UNCHANGED <<pc, url, loop, future, result, status, body, log, dask, meas, lat, messy>>

\* The kernel before any of the three cells has run: dask_client is connected,
\* tornado is not bound and none of the other names is; the kernel names
\* code in either way.
InitCells ==
    /\ InitLoop
    /\ \E naming \in Namings : defs = Defs("unbound", FALSE, 0, 0, 0, naming)
    /\ apps = [p \in Ports |-> 0]
    /\ InitIdle

\* The cells run in any order and any number of times (MaxDefs runs of
\* `def fib` at most where every run gives a new function), NumReqFib requests being fetched, once client is bound,
\* from the ports that listen.
NextCells ==
    \/ first_cell
    \/ client_cell
    \/ second_cell
    \/ \E r \in 1..NumReqFib, u \in Urls(MaxArg) :
          defs.client /\ AppAt(u.port) # 0 /\ fetch(r, u)
    \/ \E r \in Req : Handlers(r)
    \/ \E w \in Workers : Cluster(w)

SpecCells == InitCells /\ [][NextCells]_vars

\* The value of loop while the coroutine measure runs on the loop thread.
Client == NumReq + 1

\* The requests not fetched yet.
Unfetched == {r \in Req : pc[r] = "new"}

\* async def measure(url, n), called: start = time(). A call that has ended
\* or raised leaves its place to the next one.
measure_start(m, u, n) ==
    /\ LoopFree
    /\ meas[m].pc \in {"idle", "ended", "raised"}
    /\ loop' = Client
    /\ meas' = [meas EXCEPT ![m] = Measure("fetching", u, n, <<>>, clock, 0)]
    /\ UNCHANGED <<pc, url, future, result, status, body, log, dask, defs, apps, lat, messy>>

\* futures = [client.fetch(url) for i in range(n)]: one client.fetch(url) of
\* the comprehension, which runs without giving the loop thread back.
measure_fetch(m) ==
    /\ loop = Client
    /\ meas[m].pc = "fetching"
    /\ Len(meas[m].futures) < meas[m].n
    /\ Unfetched # {}
    /\ LET r == CHOOSE q \in Unfetched : \A o \in Unfetched : q <= o IN
        /\ pc' = [pc EXCEPT ![r] = "issued"]
        /\ url' = [url EXCEPT ![r] = meas[m].url]
        /\ meas' = [meas EXCEPT ![m].futures = Append(@, r)]
    /\ UNCHANGED <<loop, future, result, status, body, log, dask, defs, apps, lat, messy>>

\* results = await asyncio.gather(*futures), suspending: the list is complete
\* and the coroutine gives the loop thread back.
measure_gather(m) ==
    /\ loop = Client
    /\ meas[m].pc = "fetching"
    /\ Len(meas[m].futures) = meas[m].n
    /\ meas' = [meas EXCEPT ![m].pc = "awaiting"]
    /\ loop' = NoReq
    /\ UNCHANGED <<pc, url, future, result, status, body, log, dask, defs, apps, lat, messy>>

\* The requests of the call m of measure.
Futures(m) == {meas[m].futures[i] : i \in 1..Len(meas[m].futures)}

\* Mutant of measure_end: the coroutine goes on as soon as one response has
\* arrived (asyncio.wait with FIRST_COMPLETED in place of gather).
measure_end_any(m) ==
    /\ LoopFree
    /\ meas[m].pc = "awaiting"
    /\ \E r \in Futures(m) : pc[r] = "done" /\ status[r] = 200
    /\ meas' = [meas EXCEPT ![m].pc = "ended", ![m].end = clock]
    /\ UNCHANGED <<pc, url, loop, future, result, status, body, log, dask, defs, apps, lat, messy>>

\* await asyncio.gather(*futures), resuming with every response; end = time();
\* print(...)
measure_end(m) ==
    /\ LoopFree
    /\ meas[m].pc = "awaiting"
    /\ \A r \in Futures(m) : pc[r] = "done" /\ status[r] = 200
    /\ meas' = [meas EXCEPT ![m].pc = "ended", ![m].end = clock]
    /\ UNCHANGED <<pc, url, loop, future, result, status, body, log, dask, defs, apps, lat, messy>>

\* await asyncio.gather(*futures), raising: client.fetch raises HTTPError for a
\* response that is not a success, and gather passes the first exception on;
\* measure is left without reaching end = time().
measure_raise(m) ==
    /\ LoopFree
    /\ meas[m].pc = "awaiting"
    /\ \E r \in Futures(m) : pc[r] = "done" /\ status[r] # 200
    /\ meas' = [meas EXCEPT ![m].pc = "raised"]
    /\ UNCHANGED <<pc, url, loop, future, result, status, body, log, dask, defs, apps, lat, messy>>

\* The steps of the handlers of both applications, fib in the port-8000
\* handler taking one single-call time.
TimedHandlers(r) ==
    \/ Invoke(r)
    \/ FastHandler_get(r)
    \/ FibHandler_compute_timed(r)
    \/ FibHandler_write(r)
    \/ MainHandler_get(r)
    \/ FibHandler_submit(r)
    \/ FibHandler_await(r)
    \/ FibHandler_resume(r)
    \/ FibHandler_raise(r)
    \/ FibHandler_respond(r)
    \/ Finish(r)
    \/ dec_ref(r)

\* A call of measure can go on: every response it awaits has arrived, or one
\* of them is an error.
Resumable(m) ==
    /\ meas[m].pc = "awaiting"
    /\ \/ \A r \in Futures(m) : pc[r] = "done"
       \/ \E r \in Futures(m) : pc[r] = "done" /\ status[r] # 200

\* One single-call time passes with no call of measure left to resume.
Tick_measure == Tick /\ \A m \in Meas : ~Resumable(m)

\* Calls of measure(url, n), one after another or two at a time (as
\* asyncio.ensure_future(measure(...)) starts them), for any of the notebook's
\* URLs and any n up to the requests left, with time counted in single-call
\* times of fib.
NextMeasure ==
    \/ \E m \in Meas, u \in Urls(MaxArg), n \in 1..NumReq :
          /\ n <= Cardinality(Unfetched)
          /\ \A o \in Meas : o < m => meas[o].pc # "idle"
          /\ measure_start(m, u, n)
    \/ \E m \in Meas : measure_fetch(m) \/ measure_gather(m) \/ measure_end(m) \/ measure_raise(m)
    \/ \E r \in Req : TimedHandlers(r)
    \/ \E w \in Workers : Worker_start(w) \/ Worker_raise(w) \/ (Due(w) /\ Worker_finish(w))
    \/ Tick_measure

SpecMeasure == Init /\ [][NextMeasure]_vars

\* The last cell up to the await: async def f binds f, to a definition
\* whose lambda has new bytes at every run where the kernel names code by the
\* execution (MaxDefs runs at most) and the same bytes where it names it by
\* the source; await f(): start = time(); the lambda and its argument are
\* submitted, the task joining the queue unless the client still holds the
\* key (that of a call of the same definition that failed), and f is
\* suspended on the future.
f_submit ==
    /\ LoopFree
    /\ lat.pc \in {"idle", "done", "raised"}
    /\ defs.naming = "execution" => defs.f < MaxDefs
    /\ defs' = [defs EXCEPT !.f = IF defs.naming = "execution" THEN @ + 1 ELSE 1]
    /\ IF task[LambdaKey(defs'.f)] = "absent"
       THEN /\ task' = [task EXCEPT ![LambdaKey(defs'.f)] = "queued"]
            /\ queue' = Append(queue, LambdaKey(defs'.f))
       ELSE UNCHANGED <<task, queue>>
    /\ lat' = Latency("awaiting", clock, NoValue, 0)
    /\ UNCHANGED <<pc, url, loop, future, result, status, body, log, worker, data, clock, began,
                   apps, meas, messy>>

\* result = await ..., resuming with the future finished; end = time();
\* print(...). f returns; the release of its future waits on the event loop.
f_resume ==
    /\ LoopFree
    /\ lat.pc = "awaiting"
    /\ task[LambdaKey(defs.f)] = "finished"
    /\ lat' = [lat EXCEPT !.pc = "returned", !.result = data[LambdaKey(defs.f)], !.end = clock]
    /\ UNCHANGED <<pc, url, loop, future, result, status, body, log, dask, defs, apps, meas,
                   messy>>

\* The release of the future f awaited (the callback Client._dec_ref): the
\* client drops the key and the scheduler forgets the task and its value.
f_dec_ref ==
    /\ LoopFree
    /\ lat.pc = "returned"
    /\ lat' = [lat EXCEPT !.pc = "done"]
    /\ task' = [task EXCEPT ![LambdaKey(defs.f)] = "absent"]
    /\ data' = [data EXCEPT ![LambdaKey(defs.f)] = NoValue]
    /\ UNCHANGED <<pc, url, loop, future, result, status, body, log, queue, worker, clock, began,
                   defs, apps, meas, messy>>

\* await ..., the task having failed: the exception leaves f and the cell. The
\* future is not released and the client keeps the key of the failed task.
f_raise ==
    /\ LoopFree
    /\ lat.pc = "awaiting"
    /\ task[LambdaKey(defs.f)] = "erred"
    /\ lat' = [lat EXCEPT !.pc = "raised"]
    /\ UNCHANGED <<pc, url, loop, future, result, status, body, log, dask, defs, apps, meas,
                   messy>>

\* The notebook once its cells down to the later cell have run in order, in a
\* kernel that names code in either way.
InitLatency ==
    /\ InitLoop
    /\ \E naming \in Namings : defs = Defs("web", TRUE, 2, 2, 0, naming)
    /\ apps = [p \in Ports |-> IF p = 8000 THEN 1 ELSE 2]
    /\ InitIdle

\* The last cell, async def f and await f(), run any number of times on the
\* cluster the port-9000 application submits to, NumReqFib requests to that
\* application arriving at any time.
NextLatency ==
    \/ f_submit
    \/ f_resume
    \/ f_dec_ref
    \/ f_raise
    \/ \E r \in 1..NumReqFib, u \in AsyncFibUrls : fetch(r, u)
    \/ \E r \in Req : AsyncFibHandler(r) \/ FibHandler_raise(r)
    \/ \E w \in Workers : Cluster(w)

SpecLatency == InitLatency /\ [][NextLatency]_vars

\* ------------------------------------------------ messy-data notebook: cells
\* The file data/<f>.csv as open() finds it.
FileAt(f) == IF f \in DOMAIN fs THEN fs[f] ELSE Absent

\* The fields a file's lines are drawn from, by the kind of line: two lines
\* of well-formed data, a line of empty fields and a line of text.
Field(kind, c) ==
    CASE kind = "zero" -> (IF c = "id" THEN "0" ELSE IF c = "name" THEN "a" ELSE "0.0")
      [] kind = "one" -> (IF c = "id" THEN "1" ELSE IF c = "name" THEN "b" ELSE "1")
      [] kind = "empty" -> ""
      [] OTHER -> "a"

GoodKinds == {"zero", "one"}
LineKinds == GoodKinds \cup {"empty", "text"}

Line(kind, header) == [j \in 1..Len(header) |-> Field(kind, header[j])]

\* The sequences of at most n elements of S.
SeqsUpTo(S, n) == UNION {[1..k -> S] : k \in 0..n}

\* The headers: the columns of the dataset, any of them missing but not all.
Headers ==
    {h \in SeqsUpTo({"id", "name", "x", "y"}, 4) :
        /\ Len(h) > 0
        /\ \A i, j \in 1..Len(h) : i < j => ColumnAt(Frame(Columns, <<>>), h[i]) < ColumnAt(Frame(Columns, <<>>), h[j])}

\* The files read_data is called on: empty, or a header and up to MaxRows lines.
Files ==
    {Text(<<>>)} \cup
    {Text(<<h>> \o [i \in 1..Len(ks) |-> Line(ks[i], h)]) :
        h \in Headers, ks \in SeqsUpTo(LineKinds, MaxRows)}

\* The name of the file read_data is tried on, and of one that does not exist.
TestFile == name(0)
MissingFile == name(1)

InitReadData ==
    /\ InitWeb
    /\ \E file \in Files : fs = [f \in {TestFile} |-> file]
    /\ dir = Dir(TRUE, <<TestFile>>)
    /\ env = Env(TRUE, TRUE, "function", FALSE, <<>>)
    /\ rd = NoCall
    /\ df = NoDf
    /\ out = NoOutput

\* read_data(filename) is called: dtypes is assigned.
read_data_call(f) ==
    /\ rd.pc = "idle"
    /\ env.read_data = "function" /\ env.pd
    /\ rd' = [pc |-> "try", filename |-> f, df |-> NoFrame,
              excepted |-> FALSE, filled |-> FALSE]
    /\ UNCHANGED <<fs, dir, env, df, out, web>>

\* try: df = pd.read_csv(filename, dtype=dtypes)
read_data_try ==
    /\ rd.pc = "try"
    /\ LET r == pd_read_csv(FileAt(rd.filename), <<>>) IN
         rd' = IF r.ok THEN [rd EXCEPT !.pc = "check", !.df = r.frame]
               ELSE [rd EXCEPT !.pc = "except"]
    /\ UNCHANGED <<fs, dir, env, df, out, web>>

\* Mutant of read_data_except: the handler re-raises.
read_data_except_reraise ==
    /\ rd.pc = "except"
    /\ rd' = [rd EXCEPT !.pc = "idle", !.excepted = TRUE]
    /\ out' = Output("read_data", Raised(pd_read_csv(FileAt(rd.filename), <<>>).error), 0)
    /\ UNCHANGED <<fs, dir, env, df, web>>

\* except: df = pd.read_csv(io.StringIO(''), names=dtypes.keys(), dtype=dtypes)
read_data_except ==
    /\ rd.pc = "except"
    /\ rd' = [rd EXCEPT !.pc = "check", !.df = EmptyFrame, !.excepted = TRUE]
    /\ UNCHANGED <<fs, dir, env, df, out, web>>

\* Mutant of read_data_fill: the rows with no y are dropped.
read_data_fill_dropna ==
    /\ rd.pc = "check"
    /\ "y" \notin ColumnSet(rd.df)
    /\ rd' = [rd EXCEPT !.pc = "return", !.filled = TRUE,
                        !.df = Frame(Append(rd.df.columns, "y"), <<>>)]
    /\ UNCHANGED <<fs, dir, env, df, out, web>>

\* if 'y' not in df.columns: df['y'] = np.NaN
read_data_fill ==
    /\ rd.pc = "check"
    /\ "y" \notin ColumnSet(rd.df)
    /\ rd' = [rd EXCEPT !.pc = "return", !.filled = TRUE, !.df = SetY(rd.df)]
    /\ UNCHANGED <<fs, dir, env, df, out, web>>

\* Mutant of read_data_nofill: df['y'] = np.NaN is run whether or not the
\* frame has a y column, a y that is there being overwritten.
read_data_nofill_overwrite ==
    /\ rd.pc = "check"
    /\ "y" \in ColumnSet(rd.df)
    /\ rd' = [rd EXCEPT !.pc = "return",
                        !.df = Frame(rd.df.columns,
                                     [i \in 1..Len(rd.df.rows) |->
                                         [j \in 1..Len(rd.df.columns) |->
                                             IF rd.df.columns[j] = "y" THEN NaN
                                             ELSE rd.df.rows[i][j]]])]
    /\ UNCHANGED <<fs, dir, env, df, out, web>>

\* if 'y' not in df.columns: the condition is false.
read_data_nofill ==
    /\ rd.pc = "check"
    /\ "y" \in ColumnSet(rd.df)
    /\ rd' = [rd EXCEPT !.pc = "return"]
    /\ UNCHANGED <<fs, dir, env, df, out, web>>

\* return df: the cell displays the frame.
read_data_return ==
    /\ rd.pc = "return"
    /\ rd' = [rd EXCEPT !.pc = "idle"]
    /\ out' = Output("read_data", Returned(rd.df), 0)
    /\ UNCHANGED <<fs, dir, env, df, web>>

NextReadData ==
    \/ \E f \in {TestFile, MissingFile} : read_data_call(f)
    \/ read_data_try
    \/ read_data_except
    \/ read_data_fill
    \/ read_data_nofill
    \/ read_data_return

SpecReadData == InitReadData /\ [][NextReadData]_vars

\* The order of the characters of a file name.
Ord(c) == IF c = "-" THEN 0 ELSE DigitVal(c) + 1

\* s < t as Python compares str, from position k on: by the first character
\* that differs, a proper prefix being smaller.
RECURSIVE LexLessFrom(_, _, _)
LexLessFrom(s, t, k) ==
    IF k > Len(s) THEN k <= Len(t)
    ELSE IF k > Len(t) THEN FALSE
    ELSE IF s[k] # t[k] THEN Ord(s[k]) < Ord(t[k])
    ELSE LexLessFrom(s, t, k + 1)

LexLess(s, t) == LexLessFrom(s, t, 1)

\* The place of the name a among the names of S in increasing order.
Rank(a, S) == Cardinality({b \in S : LexLess(b, a)}) + 1

\* sorted(S), of a set of names: the name of rank i at place i.
Sorted(S) ==
    LET ranked == {<<Rank(a, S), a>> : a \in S}
    IN  [i \in 1..Cardinality(S) |-> (CHOOSE p \in ranked : p[1] = i)[2]]

\* l lists the names of S, each once.
IsListing(l, S) == Len(l) = Cardinality(S) /\ {l[i] : i \in 1..Len(l)} = S

\* The names of order that are in S, in the order of order.
Restrict(order, S) == SelectSeq(order, LAMBDA f : f \in S)

\* name(i) for the days of the datasets, as a table.
FileOf == [i \in 0..MaxDay |-> name(i)]

\* The names of the files of a dataset of n partitions.
Names(n) == {FileOf[i - 1] : i \in 1..n}

\* The days i of the files name(i) of the first 64 days, in the order the
\* directory data/ lists the files on a file system that places the entries
\* of a directory by a hash of their names (ext4), whatever the order they
\* were written in: the order os.listdir and glob return. A directory
\* holding the first n of the files lists them in this order too.
HashDays ==
    <<40, 61, 24, 45, 56, 15, 9, 3, 4, 14, 1, 29, 0, 5, 34, 51,
      17, 16, 42, 22, 36, 8, 63, 38, 52, 32, 54, 53, 58, 59, 27, 37,
      35, 28, 2, 43, 50, 33, 60, 55, 11, 49, 44, 7, 57, 13, 62, 41,
      47, 25, 23, 31, 39, 26, 12, 10, 46, 20, 6, 30, 19, 18, 48, 21>>

\* The files of n partitions as the hashing directory lists them.
HashOrder(n) ==
    LET days == SelectSeq(HashDays, LAMBDA d : d < n) IN
    [k \in 1..n |-> FileOf[days[k]]]

\* The files of n partitions as the hashing directory lists them, by name
\* (a directory that keeps its entries sorted), and by name backwards.
ListOrders(n) ==
    {HashOrder(n), [i \in 1..n |-> FileOf[i - 1]], [i \in 1..n |-> FileOf[n - i]]}

\* The directory orders the cells are tried on: those of ListOrders and the
\* sorted names from any of them on.
DirOrders(n) ==
    LET s == [i \in 1..n |-> FileOf[i - 1]]
    IN  {[i \in 1..n |-> s[((i + k - 1) % n) + 1]] : k \in 0..(n - 1)}
        \cup ListOrders(n)

\* The directory orders of a dataset of NumParts partitions.
MessyOrders == DirOrders(NumParts)

\* A partition of dask.datasets.timeseries(): a frame of one row.
Part(kind) ==
    Frame(Columns, <<[j \in 1..Len(Columns) |-> Convert(dtypes(Columns[j]), Field(kind, Columns[j]))]>>)

\* The files cells 13 and 14 corrupt: data/2000-01-05.csv, data/2000-01-07.csv.
EmptiedFile == name(4)
NoYFile == name(6)

\* The other kind of well-formed line.
Other(kind) == IF kind = "zero" THEN "one" ELSE "zero"

\* The partitions of a dataset: a row of the given kind and of the other kind
\* in turn.
Dataset(kind, n) == [i \in 1..n |-> Part(IF i % 2 = 1 THEN kind ELSE Other(kind))]

\* A call of read_data on a file as the kernel runs it: read_data looks pd up
\* when it is called, and its except clause looks it up again.
CallOn(file) ==
    IF env.pd THEN Returned(read_data(file)) ELSE Raised("NameError")

Call(f) == CallOn(FileAt(f))

\* The computation of a partition of d from the file it is given:
\* dd.read_csv reads the file and requires the columns of its meta;
\* dd.from_delayed runs the call of read_data and verifies the frame against
\* its meta; the Delayed alone runs the call.
Compute(d, file) ==
    IF d.kind = "read_csv"
    THEN LET r == pd_read_csv(file, <<>>) IN
         IF r.ok /\ r.frame.columns # d.meta THEN Raised("ValueError") ELSE r
    ELSE LET c == CallOn(file) IN
         IF d.kind = "delayed" /\ c.ok /\ c.frame.columns # d.meta
         THEN Raised("ValueError") ELSE c

\* The computation of partition i of d, of the file as it is.
Partition(d, i) == Compute(d, FileAt(d.files[i]))

IsDask(d) == d.kind \in {"read_csv", "delayed"}

\* The partition of d that df.to_csv writes to the file f, 0 for none:
\* partition i is written to name(i).
Writer(d, f) ==
    IF \E j \in 1..Len(d.files) : FileOf[j - 1] = f
    THEN CHOOSE j \in 1..Len(d.files) : FileOf[j - 1] = f
    ELSE 0

\* The partitions of d that read a file another partition writes.
Moved(d) == {i \in 1..Len(d.files) : Writer(d, d.files[i]) \notin {0, i}}

\* Partition i of d reads its file before the file's writer opens it
\* (how[i] = "before"), while it is open and still empty ("during"), or when
\* it has been written ("after"); a partition that reads the file it writes
\* reads it before. The reads do not wait on one another in a circle.
RECURSIVE Settled(_, _, _, _)
Settled(d, how, i, k) ==
    IF i \notin Moved(d) \/ how[i] = "before" THEN TRUE
    ELSE k > 0 /\ Settled(d, how, Writer(d, d.files[i]), k - 1)

\* What partition i of d computes to when the reads fall as how says.
RECURSIVE Read(_, _, _)
Read(d, how, i) ==
    IF i \notin Moved(d) \/ how[i] = "before" THEN Partition(d, i)
    ELSE IF how[i] = "during" THEN Compute(d, Text(<<>>))
    ELSE Compute(d, to_csv(Read(d, how, Writer(d, d.files[i])).frame))

\* The files written and the result, as a function from names to files and a
\* result.
Written(files, r) == [files |-> files, r |-> r]
NoFiles == [f \in {} |-> Absent]

\* d.to_csv('data/*.csv', name_function=name, index=False) of a Dask
\* dataframe over files, on the client's threads: each partition is computed
\* and then written to its file, a partition that reads a file another one
\* writes finding it as the two threads fall; when a partition fails its
\* exception is raised, and of the others any may have been written.
Rewrite(d) ==
    LET n == Len(d.files)
        late(how) == {i \in Moved(d) : how[i] # "before"}
        hows == {how \in [Moved(d) -> {"before", "during", "after"}] :
                    \A i \in late(how) :
                        /\ Settled(d, how, i, n)
                        /\ Read(d, how, Writer(d, d.files[i])).ok}
        files(how, W) == [f \in {FileOf[i - 1] : i \in W} |->
                             to_csv(Read(d, how, Writer(d, f)).frame)]
    IN  UNION {
          LET failing == {i \in 1..n : ~Read(d, how, i).ok}
              needed == {Writer(d, d.files[i]) : i \in late(how)}
          IN  IF failing = {}
              THEN {Written(files(how, 1..n), Returned(NoFrame))}
              ELSE {Written(files(how, W), Read(d, how, i)) :
                       W \in {V \in SUBSET ((1..n) \ failing) : needed \subseteq V},
                       i \in failing}
          : how \in hows}

\* df.to_csv('data/*.csv', name_function=name, index=False) by what df is:
\* of the dataset every partition i is written to the file name(i); a pandas
\* frame has no name_function; a list has no to_csv; of a Delayed the call is
\* another Delayed and nothing is run.
ToCsv(d) ==
    CASE d.kind = "timeseries" ->
           {Written([f \in Names(Len(d.parts)) |->
                        to_csv(d.parts[CHOOSE i \in 1..Len(d.parts) : FileOf[i - 1] = f])],
                    Returned(NoFrame))}
      [] d.kind = "Delayed" -> {Written(NoFiles, Returned(NoFrame))}
      [] d.kind = "pandas" -> {Written(NoFiles, Raised("TypeError"))}
      [] d.kind \in {"list", "frames"} -> {Written(NoFiles, Raised("AttributeError"))}
      [] IsDask(d) -> Rewrite(d)
      [] OTHER -> {Written(NoFiles, Raised("NameError"))}

\* if not os.path.exists('data'): os.mkdir('data'); def name(i): ...;
\* df.to_csv('data/*.csv', name_function=name, index=False): a file that is
\* there is replaced and keeps its place in the directory; the directory
\* lists the new files in an order of its own.
to_csv_cell(order) ==
    /\ Restrict(order, DOMAIN fs) = dir.listing
    /\ \E w \in ToCsv(df) :
          \E names \in {DOMAIN fs \cup DOMAIN w.files} :
             /\ IsListing(Restrict(order, names), names)
             /\ fs' = [f \in names |-> IF f \in DOMAIN w.files THEN w.files[f] ELSE fs[f]]
             /\ dir' = Dir(TRUE, Restrict(order, names))
             /\ out' = Output("to_csv", w.r, 0)
    /\ UNCHANGED <<env, rd, df, web>>

\* with open('data/2000-01-05.csv', 'w') as f: f.write(''): the file is made
\* when it is not there, and cannot be when the directory is not.
empty_file_cell(order) ==
    /\ Restrict(order, DOMAIN fs) = dir.listing
    /\ IF dir.made
       THEN \E names \in {DOMAIN fs \cup {EmptiedFile}} :
               /\ IsListing(Restrict(order, names), names)
               /\ fs' = [f \in names |-> IF f = EmptiedFile THEN Text(<<>>) ELSE fs[f]]
               /\ dir' = Dir(TRUE, Restrict(order, names))
               /\ out' = Output("empty_file", Returned(NoFrame), 0)
       ELSE /\ UNCHANGED <<fs, dir>>
            /\ out' = Output("empty_file", Raised("FileNotFoundError"), 0)
    /\ UNCHANGED <<env, rd, df, web>>

\* import pandas as pd; df = pd.read_csv('data/2000-01-07.csv'); del df['y'];
\* df.to_csv('data/2000-01-07.csv', index=False)
remove_y_cell ==
    /\ env' = [env EXCEPT !.pd = TRUE]
    /\ LET r == pd_read_csv(FileAt(NoYFile), <<>>) IN
         IF r.ok /\ "y" \in ColumnSet(r.frame)
         THEN /\ fs' = [fs EXCEPT ![NoYFile] = to_csv(DelY(r.frame))]
              /\ df' = Df("pandas", <<DelY(r.frame)>>, <<>>, <<>>)
              /\ out' = Output("remove_y", Returned(NoFrame), 0)
         ELSE /\ fs' = fs
              /\ df' = IF r.ok THEN Df("pandas", <<r.frame>>, <<>>, <<>>) ELSE df
              /\ out' = Output("remove_y", Raised(IF r.ok THEN "KeyError" ELSE r.error), 0)
    /\ UNCHANGED <<dir, rd, web>>

\* The file has no bytes.
IsEmpty(file) == file.lines = <<>>

\* df = dd.read_csv('data/2000-*-*.csv'), dd being bound: the files in sorted
\* order, the columns taken from a sample of the first file; no other file is
\* opened. A file of size 0 is given no block, so that the dataframe has a
\* partition for every file that is not empty. No file of that name is an
\* OSError.
dd_read_csv ==
    IF DOMAIN fs = {}
    THEN /\ df' = df
         /\ out' = Output("read_csv", Raised("OSError"), 0)
    ELSE \E paths \in {Sorted(DOMAIN fs)} :
            \E sample \in {pd_read_csv(fs[paths[1]], <<>>)} :
               IF sample.ok
               THEN /\ df' = Df("read_csv", <<>>,
                                SelectSeq(paths, LAMBDA f : ~IsEmpty(fs[f])),
                                sample.frame.columns)
                    /\ out' = Output("read_csv", Returned(NoFrame), 0)
               ELSE /\ df' = df
                    /\ out' = Output("read_csv", Raised(sample.error), 0)

\* import dask.dataframe as dd; df = dd.read_csv('data/2000-*-*.csv'); df
dd_read_csv_cell ==
    /\ env' = [env EXCEPT !.dd = TRUE]
    /\ dd_read_csv
    /\ UNCHANGED <<fs, dir, rd, web>>

\* The cell under 'Reading the messy data': df = dd.read_csv(
\* 'data/2000-*-*.csv'), with no import: NameError where dd is not bound.
dd_read_csv_messy_cell ==
    /\ IF env.dd
       THEN dd_read_csv
       ELSE /\ df' = df
            /\ out' = Output("read_csv", Raised("NameError"), 0)
    /\ UNCHANGED <<fs, dir, env, rd, web>>

\* import numpy as np; import io; def read_data(filename): ...
read_data_def_cell ==
    /\ env' = [env EXCEPT !.read_data = "function"]
    /\ out' = Output("def", Returned(NoFrame), 0)
    /\ UNCHANGED <<fs, dir, rd, df, web>>

\* from dask import delayed; read_data = delayed(read_data): delayed of what
\* is a Delayed already is that Delayed.
delayed_cell ==
    /\ IF env.read_data = "unbound"
       THEN /\ env' = env
            /\ out' = Output("delayed", Raised("NameError"), 0)
       ELSE /\ env' = [env EXCEPT !.read_data = "delayed"]
            /\ out' = Output("delayed", Returned(NoFrame), 0)
    /\ UNCHANGED <<fs, dir, rd, df, web>>

\* df = read_data('data/2000-01-01.csv'); df: the call is run when read_data
\* is the function, and kept for later when it is the delayed wrapper.
delayed_call_cell ==
    /\ CASE env.read_data = "unbound" ->
              /\ df' = df
              /\ out' = Output("delayed_call", Raised("NameError"), 0)
         [] env.read_data = "function" ->
              \E r \in {Call(FileOf[0])} :
                 /\ df' = IF r.ok THEN Df("pandas", <<r.frame>>, <<>>, <<>>) ELSE df
                 /\ out' = Output("delayed_call", r, Len(r.frame.rows))
         [] OTHER ->
              /\ df' = Df("Delayed", <<>>, <<FileOf[0]>>, <<>>)
              /\ out' = Output("delayed_call", Returned(NoFrame), 0)
    /\ UNCHANGED <<fs, dir, env, rd, web>>

\* from glob import glob; files = glob('data/2000-*-*.csv'); files: the files
\* in the directory's order, none when there is no directory.
glob_cell ==
    /\ env' = [env EXCEPT !.globbed = TRUE, !.files = dir.listing]
    /\ out' = Output("glob", Returned(NoFrame), Len(dir.listing))
    /\ UNCHANGED <<fs, dir, rd, df, web>>

\* df = [read_data(file) for file in files]; df: with read_data the delayed
\* wrapper a Delayed per file, in the order of files, nothing being read;
\* with read_data the function every file is read and the list holds the
\* frames.
list_cell ==
    /\ CASE ~env.globbed \/ (env.files # <<>> /\ env.read_data = "unbound") ->
              /\ df' = df
              /\ out' = Output("list", Raised("NameError"), 0)
         [] env.files # <<>> /\ env.read_data = "function" ->
              IF env.pd
              THEN /\ df' = Df("frames", [i \in 1..Len(env.files) |-> Call(env.files[i]).frame],
                               <<>>, <<>>)
                   /\ out' = Output("list", Returned(NoFrame), Len(env.files))
              ELSE /\ df' = df
                   /\ out' = Output("list", Call(env.files[1]), 0)
         [] OTHER ->
              /\ df' = Df("list", <<>>, env.files, <<>>)
              /\ out' = Output("list", Returned(NoFrame), Len(env.files))
    /\ UNCHANGED <<fs, dir, env, rd, web>>

\* df = dd.from_delayed(df, meta={'id': int, 'name': str, 'x': float,
\* 'y': float}); df: a partition per Delayed of the list, in the list's order
\* (one partition of a single Delayed); nothing is read. Anything else than
\* Delayed objects, and a list of none, is a TypeError.
from_delayed_cell ==
    /\ CASE ~env.dd \/ df.kind = "none" ->
              /\ df' = df
              /\ out' = Output("from_delayed", Raised("NameError"), 0)
         [] df.kind \in {"list", "Delayed"} /\ df.files # <<>> ->
              /\ df' = Df("delayed", <<>>, df.files, Columns)
              /\ out' = Output("from_delayed", Returned(NoFrame), 0)
         [] OTHER ->
              /\ df' = df
              /\ out' = Output("from_delayed", Raised("TypeError"), 0)
    /\ UNCHANGED <<fs, dir, env, rd, web>>

\* The rows of partitions 1..n of d together.
RECURSIVE TotalRows(_, _)
TotalRows(d, n) ==
    IF n = 0 THEN 0 ELSE TotalRows(d, n - 1) + Len(Partition(d, n).frame.rows)

\* Every partition of the Dask dataframe df is computed, on the client's
\* threads; the exception of a partition that fails is raised.
ComputeAll(cell) ==
    LET failing == {i \in 1..Len(df.files) : ~Partition(df, i).ok} IN
    IF failing = {}
    THEN out' = Output(cell, Returned(NoFrame), TotalRows(df, Len(df.files)))
    ELSE \E i \in failing : out' = Output(cell, Partition(df, i), 0)

\* df.compute(): the call of the Delayed is run and its frame displayed; a
\* Dask dataframe computes every partition, the dataset its rows; a list and
\* a pandas frame have no compute.
compute_cell ==
    /\ CASE df.kind = "none" -> out' = Output("compute", Raised("NameError"), 0)
         [] df.kind = "Delayed" ->
              \E r \in {Partition(df, 1)} : out' = Output("compute", r, Len(r.frame.rows))
         [] IsDask(df) -> ComputeAll("compute")
         [] df.kind = "timeseries" ->
              out' = Output("compute", Returned(NoFrame), Len(df.parts))
         [] OTHER -> out' = Output("compute", Raised("AttributeError"), 0)
    /\ UNCHANGED <<fs, dir, env, rd, df, web>>

\* df.head(): of a Dask dataframe the first partition only; of a pandas
\* frame its rows; of a Delayed another Delayed, nothing being read; a list
\* has no head.
head_cell ==
    /\ CASE df.kind = "none" -> out' = Output("head", Raised("NameError"), 0)
         [] df.kind = "Delayed" -> out' = Output("head", Returned(NoFrame), 0)
         [] IsDask(df) ->
              \E r \in {Partition(df, 1)} : out' = Output("head", r, Len(r.frame.rows))
         [] df.kind \in {"timeseries", "pandas"} ->
              out' = Output("head", Returned(df.parts[1]), Len(df.parts[1].rows))
         [] OTHER -> out' = Output("head", Raised("AttributeError"), 0)
    /\ UNCHANGED <<fs, dir, env, rd, df, web>>

\* df.describe().compute(): of a Dask dataframe every partition is computed;
\* of a Delayed the call is run and its frame described; what describe makes
\* of a pandas frame has no compute; a list has no describe.
describe_cell ==
    /\ CASE df.kind = "none" -> out' = Output("describe", Raised("NameError"), 0)
         [] df.kind = "Delayed" ->
              \E r \in {Partition(df, 1)} :
                 out' = Output("describe", IF r.ok THEN Returned(NoFrame) ELSE r, Len(r.frame.rows))
         [] IsDask(df) -> ComputeAll("describe")
         [] df.kind = "timeseries" ->
              out' = Output("describe", Returned(NoFrame), Len(df.parts))
         [] OTHER -> out' = Output("describe", Raised("AttributeError"), 0)
    /\ UNCHANGED <<fs, dir, env, rd, df, web>>

\* import dask; df = dask.datasets.timeseries(); df: random data, NumParts
\* partitions.
timeseries_cell ==
    /\ \E kind \in GoodKinds : df' = Df("timeseries", Dataset(kind, NumParts), <<>>, Columns)
    /\ out' = Output("timeseries", Returned(NoFrame), 0)
    /\ UNCHANGED <<fs, dir, env, rd, web>>

\* The notebook once its first cells have run in order, down to df.to_csv:
\* df is the dataset, its partitions are written to the files name(i), which
\* the directory lists in an order of MessyOrders, and no name of the later
\* cells is bound.
InitMessy ==
    /\ InitWeb
    /\ \E kind \in GoodKinds, listing \in MessyOrders :
          /\ df = Df("timeseries", Dataset(kind, NumParts), <<>>, Columns)
          /\ \E w \in ToCsv(df) : fs = w.files /\ out = Output("to_csv", w.r, 0)
          /\ dir = Dir(TRUE, listing)
    /\ env = NoEnv
    /\ rd = NoCall

\* The cells of the notebook in any order, but for the cell of df.to_csv,
\* which has written the dataset once: SpecToCsv runs it on datasets of any
\* number of days, and SpecRewrite over the files it reads from.
NextMessy ==
    \/ timeseries_cell
    \/ \E order \in MessyOrders : empty_file_cell(order)
    \/ remove_y_cell
    \/ dd_read_csv_cell
    \/ dd_read_csv_messy_cell
    \/ read_data_def_cell
    \/ delayed_cell
    \/ delayed_call_cell
    \/ compute_cell
    \/ glob_cell
    \/ list_cell
    \/ from_delayed_cell
    \/ head_cell
    \/ describe_cell

SpecMessy == InitMessy /\ [][NextMessy]_vars

\* The files as the cells down to the removal of y leave them: written,
\* data/2000-01-05.csv emptied and y removed from data/2000-01-07.csv.
MessyFiles ==
    LET parts == Dataset("zero", NumParts) IN
    [f \in Names(NumParts) |->
        IF f = EmptiedFile THEN Text(<<>>)
        ELSE LET part == parts[CHOOSE i \in 1..NumParts : FileOf[i - 1] = f]
             IN  to_csv(IF f = NoYFile THEN DelY(part) ELSE part)]

\* The notebook as its cells leave it at the end, run in order: the files of
\* MessyFiles, listed in an order of DirOrders, df the dataframe of
\* dd.from_delayed over the files as glob found them.
InitRewrite ==
    /\ InitWeb
    /\ fs = MessyFiles
    /\ \E listing \in MessyOrders :
          /\ dir = Dir(TRUE, listing)
          /\ env = Env(TRUE, TRUE, "delayed", TRUE, listing)
          /\ df = Df("delayed", <<>>, listing, Columns)
    /\ rd = NoCall
    /\ out = NoOutput

\* The first cells run again at the end of the notebook, once: df.to_csv
\* writes the files its partitions are read from.
NextRewrite ==
    \/ out = NoOutput /\ to_csv_cell(dir.listing)
    \/ head_cell
    \/ glob_cell

SpecRewrite == InitRewrite /\ [][NextRewrite]_vars

\* The first cells alone, for a dataset of 1 to MaxDay + 1 days.
InitToCsv ==
    /\ InitWeb
    /\ fs = [f \in {} |-> Absent]
    /\ dir = NoDir
    /\ env = NoEnv
    /\ rd = NoCall
    /\ \E n \in 1..(MaxDay + 1) : df = Df("timeseries", Dataset("one", n), <<>>, Columns)
    /\ out = NoOutput

NextToCsv ==
    \/ \E order \in ListOrders(IF df.kind = "timeseries" THEN Len(df.parts)
                                ELSE Len(dir.listing)) : to_csv_cell(order)
    \/ dd_read_csv_cell

SpecToCsv == InitToCsv /\ [][NextToCsv]_vars

\* ------------------------------------------------------------------ claims
\* Request r has been fetched and its URL is routed to handler class cls.
Routed(r, cls) == pc[r] # "new" /\ Handler(r) = cls

\* Request r's handler is between two points where it gives up the thread:
\* get() has been invoked or resumed and has neither suspended nor finished.
Executing(r) == pc[r] \in {"started", "computed", "submitted", "resumed", "written", "raised"}

\* The steps of a /fast request on port 9000, from arrival to response.
MainStep(m) == Invoke(m) \/ MainHandler_get(m) \/ Finish(m)

\* The computation request f awaits has not completed.
Outstanding(f) ==
    /\ Routed(f, "FibHandlerAsync")
    /\ pc[f] = "awaiting"
    /\ task[future[f]] \in {"queued", "running"}

\* C1: on the port-9000 server a FibHandler suspended at `await future` does
\* not keep MainHandler from running: whenever a /fib request is suspended, a
\* /fast request has arrived and no handler is executing, Tornado can invoke
\* MainHandler.get at once.
C1_SuspendedFibDoesNotBlockFast ==
    \A f, m \in Req :
        ( /\ Routed(f, "FibHandlerAsync") /\ pc[f] = "awaiting"
          /\ Routed(m, "MainHandler") /\ pc[m] = "issued"
          /\ \A q \in Req : ~Executing(q) )
        => ENABLED Invoke(m)

\* C1, its case: /fib fetched first, /fast fetched after it, and the /fast
\* response (200, "Hello, world") sent while the /fib request is still
\* suspended on a computation that has not completed.
C1_FastAnsweredBeforeFib ==
    \E f, m \in Req :
        /\ f < m
        /\ Outstanding(f)
        /\ Routed(m, "MainHandler") /\ pc[m] = "done"
        /\ status[m] = 200 /\ body[m] = HelloWorld

\* C2: a /fast request on port 9000 is answered in its three loop steps
\* (invoke, get, finish) whatever the number K of /fib requests suspended in
\* Awaiting-Result: in every state with K suspended requests in which no other
\* handler is executing, the next step of the /fast request can be taken, and
\* no computation has to complete for it.
C2_FastIndependentOfOutstanding ==
    \A m \in Req : \A K \in 0..NumReq :
        ( /\ Routed(m, "MainHandler")
          /\ pc[m] \in {"issued", "started", "written"}
          /\ Cardinality({f \in Req : Outstanding(f)}) = K
          /\ \A q \in Req \ {m} : ~Executing(q) )
        => ENABLED MainStep(m)

\* C2, its case: a /fast request answered while every other request (K =
\* NumReq - 1 of them) is a /fib request suspended on an uncompleted computation.
C2_FastAnsweredWithAllOthersOutstanding ==
    \E m \in Req :
        /\ Routed(m, "MainHandler") /\ pc[m] = "done" /\ body[m] = HelloWorld
        /\ \A f \in Req \ {m} : Outstanding(f)

\* The Fibonacci numbers by iteration: <<F(n), F(n+1)>>, from F(0) = 0, F(1) = 1.
RECURSIVE FibPair(_)
FibPair(n) ==
    IF n = 0 THEN <<0, 1>>
    ELSE LET p == FibPair(n - 1) IN <<p[2], p[1] + p[2]>>

RECURSIVE Pow10(_)
Pow10(e) == IF e = 0 THEN 1 ELSE 10 * Pow10(e - 1)

\* The number a string of decimal digits denotes, digit by place value.
RECURSIVE PlaceValue(_, _)
PlaceValue(s, i) ==
    IF i > Len(s) THEN 0
    ELSE DigitVal(s[i]) * Pow10(Len(s) - i) + PlaceValue(s, i + 1)

\* s is the decimal string of the natural number k: digits only, no leading
\* zero, denoting k.
IsDecimalOf(s, k) ==
    /\ Len(s) >= 1
    /\ \A i \in 1..Len(s) : IsDigit(s[i])
    /\ Len(s) > 1 => s[1] # "0"
    /\ PlaceValue(s, 1) = k

\* Request r is a /fib/<n> request a FibHandler answered.
FibRequest(r) == Routed(r, "FibHandler") \/ Routed(r, "FibHandlerAsync")

\* The n of a /fib/<n> request.
N(r) == PlaceValue(url[r].path.param, 1)

\* C4: for every n >= 0 the body of a successful response to GET /fib/<n> is
\* the decimal string of the n-th Fibonacci number (F(0) = 0, F(1) = 1,
\* F(n) = F(n-1) + F(n-2)), on port 8000 and on port 9000 alike: two requests
\* for the same n get the same body. Port 8000 always answers 200; port 9000
\* answers 200 or, the computation having raised, 500.
C4_FibBody ==
    \A r \in Req :
        (pc[r] = "done" /\ FibRequest(r)) =>
            /\ status[r] = 200 \/ (status[r] = 500 /\ url[r].port = 9000)
            /\ status[r] = 200 => IsDecimalOf(body[r], FibPair(N(r))[1])
            /\ \A q \in Req :
                  ( /\ pc[q] = "done" /\ FibRequest(q)
                    /\ status[q] = 200 /\ status[r] = 200 /\ N(q) = N(r) )
                  => body[q] = body[r]

\* C4, its case: /fib/<n> answered by both servers for the largest n, from
\* two different spellings of n, with the same body of several digits.
C4_BothServersAnswered ==
    \E r, q \in Req :
        /\ pc[r] = "done" /\ Routed(r, "FibHandler") /\ status[r] = 200
        /\ pc[q] = "done" /\ Routed(q, "FibHandlerAsync") /\ status[q] = 200
        /\ N(r) = MaxArgFib /\ N(q) = MaxArgFib
        /\ url[r].path.param # url[q].path.param
        /\ body[r] = body[q] /\ Len(body[r]) > 1

\* The per-request states of the specification: Idle until the computation
\* is dispatched and again once the response is sent, Awaiting-Result from
\* the submission until the coroutine is resumed, Responding from then on.
Phase(p) ==
    CASE p \in {"new", "issued", "started", "done"} -> "Idle"
      [] p \in {"submitted", "awaiting"} -> "AwaitingResult"
      [] p \in {"resumed", "written", "raised"} -> "Responding"
      [] OTHER -> "None"

\* How often event e is in the log.
Count(e) == Cardinality({i \in 1..Len(log) : log[i] = e})

\* One step of the system, seen from a port-9000 /fib request r.
C5_Step(r) ==
    LET a == Phase(pc[r])
        b == Phase(pc'[r])
    IN  /\ (a = "Idle" /\ b # a) => (pc[r] = "started" /\ b = "AwaitingResult")
        /\ (a = "AwaitingResult" /\ b # a) =>
               (b = "Responding" /\ task[future[r]] \in {"finished", "erred"})
        /\ (a = "Responding" /\ b # a) => pc'[r] = "done"
        /\ pc[r] = "done" => pc'[r] = "done"
        /\ body'[r] # body[r] =>
               /\ pc[r] = "resumed" /\ body[r] = <<>>
               /\ task[future[r]] = "finished" /\ result[r] = data[future[r]]
        /\ Count(<<"sent", r>>) = (IF pc[r] = "done" THEN 1 ELSE 0)
        /\ Count(<<"sent", r>>)' = (IF pc'[r] = "done" THEN 1 ELSE 0)

\* C5: every request the port-9000 FibHandler handles goes Idle ->
\* Awaiting-Result -> Responding -> Idle in that order and once: it starts
\* responding only when its dispatched computation has finished or raised,
\* writes its body once, only while Responding and from the finished result,
\* never goes back to Awaiting-Result, and is sent exactly one response.
C5_FibHandlerLifecycle ==
    [][\A r \in Req : Routed(r, "FibHandlerAsync") => C5_Step(r)]_vars

\* C5, its case: a /fib request on port 9000 that has gone through the whole
\* cycle, with another one in Awaiting-Result.
C5_OneCycleDone ==
    \E r, q \in Req :
        /\ Routed(r, "FibHandlerAsync") /\ pc[r] = "done" /\ status[r] = 200
        /\ Count(<<"submit", r>>) = 1 /\ Count(<<"sent", r>>) = 1
        /\ Routed(q, "FibHandlerAsync") /\ pc[q] = "awaiting"

\* What the handler of request q holds: where it is and its local state.
HandlerState(q) == <<pc[q], future[q], result[q], status[q], body[q]>>

\* One step of the system while the port-9000 handler of request r is
\* executing: no other request moves, and r itself leaves execution only by
\* suspending at `await future` (FibHandler) or by having returned.
C6_Step(r) ==
    (Executing(r) /\ url[r].port = 9000) =>
        /\ \A q \in Req \ {r} : HandlerState(q)' = HandlerState(q)
        /\ ~Executing(r)' =>
              \/ pc'[r] = "done"
              \/ /\ pc'[r] = "awaiting" /\ pc[r] = "submitted"
                 /\ Routed(r, "FibHandlerAsync")

\* C6: a port-9000 handler gives up control only at `await future`: from the
\* invocation of get() to the suspension, and from the resumption to the end
\* of the request, no other request is fetched, invoked, resumed or answered,
\* and MainHandler is never suspended.
C6_YieldOnlyAtAwait ==
    [][\A r \in Req : C6_Step(r) /\ (Routed(r, "MainHandler") => pc'[r] # "awaiting")]_vars

\* C6, its case: a resumed FibHandler about to write while a second request
\* has arrived and a third could be resumed: both have to wait.
C6_OthersWaitWhileExecuting ==
    \E r, q, m \in Req :
        /\ Routed(r, "FibHandlerAsync") /\ pc[r] = "resumed"
        /\ Routed(q, "FibHandlerAsync") /\ pc[q] = "awaiting"
        /\ task[future[q]] = "finished"
        /\ Routed(m, "MainHandler") /\ pc[m] = "issued"

\* The position of event e in the log (0: not in it).
At(e) == IF Count(e) = 0 THEN 0 ELSE CHOOSE i \in 1..Len(log) : log[i] = e

\* C7: whatever the interleaving, a port-9000 FibHandler is resumed by its
\* own future: the future it holds is the task of its own n, it is resumed
\* only with that task finished, its result is the n-th Fibonacci number and
\* the body it writes is that number's decimal string.
C7_OwnResult ==
    \A r \in Req :
        Routed(r, "FibHandlerAsync") =>
            /\ pc[r] \in {"submitted", "awaiting", "resumed", "written", "raised"}
                  => future[r] = SubmitKey(N(r))
            /\ pc[r] \in {"resumed", "written"} =>
                  /\ task[future[r]] = "finished"
                  /\ result[r] = FibPair(N(r))[1]
            /\ (pc[r] \in {"written", "done"} /\ status[r] = 200) =>
                  IsDecimalOf(body[r], FibPair(N(r))[1])

\* C7, its case: a FibHandler resumed with its own result while the future
\* of another request, with another value, has finished too.
C7_ResumedAmongFinished ==
    \E r, q \in Req :
        /\ Routed(r, "FibHandlerAsync") /\ pc[r] = "resumed"
        /\ Routed(q, "FibHandlerAsync") /\ pc[q] = "awaiting"
        /\ task[future[q]] = "finished"
        /\ data[future[q]] # result[r]
        /\ At(<<"submit", q>>) < At(<<"submit", r>>)

\* C8: a /fib request whose own computation has finished can be resumed as
\* soon as no handler is executing, whatever the state of the other requests
\* and of their computations: no response waits for the completion of a
\* request submitted before or after it.
C8_ResumeIndependent ==
    \A a \in Req :
        ( /\ Routed(a, "FibHandlerAsync") /\ pc[a] = "awaiting"
          /\ task[future[a]] = "finished"
          /\ \A q \in Req : ~Executing(q) )
        => ENABLED FibHandler_resume(a)

\* C8, its case: three requests submitted in the order x, y, z to the pool of
\* two or more workers and answered in the order y, x, z, with x and y on
\* different computations: y before x against the order of submission, x
\* before z with it.
C8_BothOrders ==
    \E x, y, z \in Req :
        /\ NumWorkers >= 2
        /\ N(x) # N(y)
        /\ 0 < At(<<"submit", x>>)
        /\ At(<<"submit", x>>) < At(<<"submit", y>>)
        /\ At(<<"submit", y>>) < At(<<"submit", z>>)
        /\ At(<<"submit", z>>) < At(<<"sent", y>>)
        /\ At(<<"sent", y>>) < At(<<"sent", x>>)
        /\ At(<<"sent", x>>) < At(<<"sent", z>>)
        /\ status[x] = 200 /\ status[y] = 200 /\ status[z] = 200

\* A step in which the computation with key k raises.
Raises(k) == task[k] = "running" /\ task'[k] = "erred"

\* Request q is in flight: fetched and not answered yet.
InFlight(q) == pc[q] \notin {"new", "done"}

\* One step of the system, seen from a port-9000 /fib request r: what the
\* failure of its computation does to it, and what a failure does to the
\* others.
C9_Step(r) ==
    /\ pc[r] = "raised" => (status[r] = 500 /\ body[r] = <<>> /\ task[future[r]] = "erred")
    /\ pc[r] \in {"resumed", "written"} => (status[r] = 200 /\ task[future[r]] = "finished")
    /\ (pc[r] = "awaiting" /\ task[future[r]] = "erred" /\ pc'[r] # pc[r]) =>
          (pc'[r] = "raised" /\ status'[r] = 500 /\ body'[r] = <<>>)
    /\ pc'[r] = "done" =>
          \/ /\ status'[r] = 500 /\ body'[r] = <<>>
             /\ future'[r] = SubmitKey(N(r)) /\ task'[future'[r]] = "erred"
          \/ status'[r] = 200 /\ IsDecimalOf(body'[r], FibPair(N(r))[1])
    /\ (pc[r] = "started" /\ pc'[r] = "submitted" /\ task[SubmitKey(N(r))] = "erred") =>
          (future'[r] = SubmitKey(N(r)) /\ task' = task /\ queue' = queue /\ worker' = worker)
    /\ \A k \in Keys :
          /\ Raises(k) =>
              /\ \A j \in Keys \ {k} : task'[j] = task[j] /\ data'[j] = data[j]
              /\ \A q \in Req : HandlerState(q)' = HandlerState(q)
          /\ task[k] = "erred" => task'[k] = "erred"
    /\ pc'[r] = "raised" /\ pc[r] # "raised" =>
          \A q \in Req \ {r} : HandlerState(q)' = HandlerState(q)

\* C9 as claimed: the computation a port-9000 FibHandler dispatched raising
\* changes the outcome of no other request in flight: at most one request in
\* flight holds the future of a computation that raises.
C9_FailureReachesOneRequest ==
    [][\A k \in Keys :
          Raises(k) => Cardinality({q \in Req : InFlight(q) /\ future[q] = k}) <= 1]_vars

\* C9, amended: when the computation a port-9000 FibHandler dispatched raises,
\* the request ends with the error response (500, no body written) and never
\* with a result body, and a handler writes a result only from a computation
\* that finished. The failure is that of the task of fib and n: it is shared
\* by every request for the same n that holds its future, and, the failed
\* task staying with the client, by every later request for that n, which is
\* answered 500 with nothing computed for it. A request is answered 500 only
\* when the task of its own n has failed: the failure leaves every other
\* computation and the state of every other request as they were, and a
\* request for another n still ends with 200 and its own Fibonacci number.
C9_FailurePropagates ==
    [][\A r \in Req : Routed(r, "FibHandlerAsync") => C9_Step(r)]_vars

\* C9, its case: three requests in flight together, two of them for the same
\* n, whose computation has raised, both answered 500 with no body, and the
\* third, for another n, answered 200 with its result.
C9_SharedFailureOtherSucceeds ==
    \E r, q, m \in Req :
        /\ r # q /\ N(r) = N(q) /\ N(m) # N(r)
        /\ \A a \in {r, q, m} : Routed(a, "FibHandlerAsync") /\ pc[a] = "done"
        /\ status[r] = 500 /\ body[r] = <<>>
        /\ status[q] = 500 /\ body[q] = <<>>
        /\ status[m] = 200 /\ body[m] = str(fib(N(m)))
        /\ \A a, b \in {r, q, m} : At(<<"submit", a>>) < At(<<"sent", b>>)

\* C10: dask_client.submit never blocks the handler and never rejects: a
\* FibHandler that has been invoked can submit and then suspend whatever the
\* workers are doing and however many tasks are queued, and from then on its
\* task is held by the scheduler: waiting in the queue, running on a worker,
\* or completed.
C10_SubmitNeverBlocks ==
    \A r \in Req :
        Routed(r, "FibHandlerAsync") =>
            /\ pc[r] = "started" => ENABLED FibHandler_submit(r)
            /\ pc[r] = "submitted" => ENABLED FibHandler_await(r)
            /\ pc[r] \in {"submitted", "awaiting"} =>
                  /\ future[r] \in Keys
                  /\ task[future[r]] # "absent"
                  /\ task[future[r]] = "queued" <=>
                        \E i \in 1..Len(queue) : queue[i] = future[r]
                  /\ task[future[r]] = "running" <=>
                        \E w \in Workers : worker[w] = future[r]

\* C10, its case: more requests than workers, each on a computation of its
\* own, all suspended in Awaiting-Result at once: every worker busy and the
\* rest of the submissions in the queue.
C10_AllAwaiting ==
    /\ NumReq > NumWorkers
    /\ \A r \in Req : Routed(r, "FibHandlerAsync") /\ pc[r] = "awaiting"
    /\ \A r, q \in Req : r # q => future[r] # future[q]
    /\ \A w \in Workers : worker[w] # NoTask
    /\ Len(queue) = NumReq - NumWorkers

\* ceil(a / b)
CeilDiv(a, b) == (a + b - 1) \div b

\* The requests fetched, and the distinct n among them.
Fetched == {r \in Req : pc[r] # "new"}
DistinctN == {N(r) : r \in Fetched}

\* Every request fetched has been answered.
AllAnswered == Fetched # {} /\ \A r \in Fetched : pc[r] = "done"

\* C3 as claimed: N requests fetched together are all answered after
\* ceil(N / W) single-call times.
C3_TimeIsCeilNOverW ==
    AllAnswered => clock = CeilDiv(Cardinality(Fetched), NumWorkers)

\* C3, amended: N requests fetched together are all answered after
\* ceil(D / W) single-call times, D being the number of distinct n among
\* them (requests for the same n share one computation), which is at most
\* ceil(N / W) and, with W > 1 and N > 1, less than the N of sequential
\* execution.
C3_TimeIsCeilDistinctOverW ==
    AllAnswered =>
        /\ clock = CeilDiv(Cardinality(DistinctN), NumWorkers)
        /\ clock <= CeilDiv(Cardinality(Fetched), NumWorkers)
        /\ (NumWorkers > 1 /\ Cardinality(Fetched) > 1) => clock < Cardinality(Fetched)

\* C3, its case: more requests than workers, for pairwise distinct n, all
\* answered, after more than one single-call time.
C3_AllAnsweredDistinct ==
    /\ AllAnswered
    /\ Cardinality(Fetched) > NumWorkers
    /\ Cardinality(DistinctN) = Cardinality(Fetched)
    /\ clock = CeilDiv(Cardinality(Fetched), NumWorkers)
    /\ clock > 1

\* C11: at most one handler is executing in every state, and it is the one
\* holding the loop thread; every other request is waiting to be invoked,
\* suspended at its await, or answered. dask_client.submit can therefore be
\* called by one handler only, the one on the loop thread.
C11_OneHandlerExecuting ==
    /\ \A r, q \in Req : (Executing(r) /\ Executing(q)) => r = q
    /\ \A r \in Req : Executing(r) <=> loop = r
    /\ \A r \in Req :
          ENABLED FibHandler_submit(r) =>
              /\ loop = r
              /\ \A q \in Req \ {r} :
                    /\ pc[q] \in {"new", "issued", "awaiting", "done"}
                    /\ ~ENABLED FibHandler_submit(q)

\* C11, its case: a FibHandler about to call submit while a second request is
\* suspended with its task finished and a third /fib request has arrived.
C11_SubmitWhileOthersWait ==
    \E r, q, m \in Req :
        /\ Routed(r, "FibHandlerAsync") /\ pc[r] = "started"
        /\ Routed(q, "FibHandlerAsync") /\ pc[q] = "awaiting"
        /\ task[future[q]] = "finished"
        /\ Routed(m, "FibHandlerAsync") /\ pc[m] = "issued"

\* The port-8000 FibHandler of request f is on the loop thread: from the
\* invocation of get() to the end of the request.
Blocking(f) == Routed(f, "FibHandler") /\ pc[f] \in {"started", "computed", "written"}

\* One step of the system while the port-8000 FibHandler of f is running.
C12_Step(f) ==
    Blocking(f) =>
        /\ \A q \in Req \ {f} :
              /\ pc[q] \in {"new", "issued", "awaiting", "done"}
              /\ HandlerState(q)' = HandlerState(q)
              /\ url'[q] = url[q]
              /\ Count(<<"sent", q>>)' = Count(<<"sent", q>>)
              /\ pc[q] = "issued" => (pc'[q] = "issued" /\ Count(<<"sent", q>>)' = 0)
        /\ loop = f
        /\ ~Blocking(f)' =>
              /\ pc'[f] = "done" /\ body'[f] = str(fib(N(f)))
              /\ Count(<<"sent", f>>)' = 1

\* C12 as claimed, its last clause: a /fast request to port 8000 fetched
\* right after a /fib request to port 8000 is answered only after the /fib
\* response.
C12_FastFetchedAfterFibAnsweredAfter ==
    \A f, m \in Req :
        ( /\ m = f + 1
          /\ Routed(f, "FibHandler") /\ Routed(m, "FastHandler")
          /\ pc[m] = "done" )
        => (pc[f] = "done" /\ At(<<"sent", f>>) < At(<<"sent", m>>))

\* C12, amended: on port 8000, from the moment FibHandler.get is invoked until
\* its response has been written and sent, no other request is fetched,
\* invoked, resumed or answered, on either port; the handler leaves the loop
\* thread only with its response sent. A /fast request that has arrived and
\* has not been taken up when FibHandler.get is invoked stays as it is until
\* then and is answered only after the /fib response. (Which of two requests
\* that have both arrived the server takes up first is not fixed by the order
\* of the fetches: a /fast request fetched right after the /fib request and
\* taken up before it is answered before it.)
C12_BlockingFibStallsOthers ==
    [][\A f \in Req : C12_Step(f)]_vars

\* C12, its case: /fib fetched on port 8000, computed and its response
\* written but not yet sent, with a /fast request to port 8000 fetched right
\* after it still waiting to be invoked.
C12_FastWaitsForFib ==
    \E f, m \in Req :
        /\ m = f + 1
        /\ Routed(f, "FibHandler") /\ pc[f] = "written"
        /\ body[f] = str(fib(N(f)))
        /\ Routed(m, "FastHandler") /\ pc[m] = "issued"
        /\ Count(<<"sent", m>>) = 0

\* C13: on port 8000, N /fib requests fetched together are computed one after
\* another: at most one call of fib is in progress at any time, the k-th
\* response is sent after k single-call times and the last after N.
C13_TimeIsN ==
    /\ Cardinality({r \in Req : pc[r] = "started"}) <= 1
    /\ clock = Cardinality({r \in Req : pc[r] \in {"computed", "written", "done"}})
    /\ AllAnswered => clock = Cardinality(Fetched)

\* C13, its case: NumReq requests, two of them for the same n, all answered.
C13_AllAnsweredBlocking ==
    /\ AllAnswered
    /\ Cardinality(Fetched) = NumReq
    /\ Cardinality(DistinctN) < NumReq
    /\ clock = NumReq

\* The body a successful response to the request q has, from q's URL alone.
ExpectedBody(q) ==
    CASE Handler(q) = "FastHandler" -> Hello
      [] Handler(q) = "MainHandler" -> HelloWorld
      [] OTHER -> str(FibPair(N(q))[1])

\* Request r's handler takes a step: it is invoked, runs, suspends, is resumed
\* or ends.
HandlerStep(r) == pc[r] # "new" /\ pc'[r] # pc[r]

\* One step of the handler of request r, seen from everything else.
C14_Step(r) ==
    HandlerStep(r) =>
        /\ \A q \in Req \ {r} :
              /\ HandlerState(q)' = HandlerState(q)
              /\ url'[q] = url[q]
              /\ Handler(q)' = Handler(q)
              /\ future[q] # NoTask =>
                    /\ task'[future[q]] = task[future[q]]
                    /\ data'[future[q]] = data[future[q]]
        /\ url'[r] = url[r] /\ Handler(r)' = Handler(r)
        /\ defs' = defs /\ apps' = apps
        /\ worker' = worker
        /\ \A k \in Keys :
              (task'[k] # task[k] \/ data'[k] # data[k]) =>
                  (k = SubmitKey(N(r)) /\ Routed(r, "FibHandlerAsync"))
        /\ queue' # queue =>
              (queue' = Append(queue, SubmitKey(N(r))) /\ pc[r] = "started" /\ pc'[r] = "submitted")
        /\ (pc[r] = "started" /\ pc'[r] = "submitted") =>
              IF task[SubmitKey(N(r))] = "absent"
              THEN task'[SubmitKey(N(r))] = "queued" /\ queue' = Append(queue, SubmitKey(N(r)))
              ELSE task' = task /\ queue' = queue
        /\ body'[r] # body[r] => (body[r] = <<>> /\ body'[r] = ExpectedBody(r))

\* One step that releases the future of request r, seen from everything else.
C14_Release(r) ==
    (future[r] # NoTask /\ future'[r] = NoTask) =>
        /\ pc[r] = "done" /\ status[r] = 200 /\ pc' = pc
        /\ \A q \in Req \ {r} :
              /\ HandlerState(q)' = HandlerState(q)
              /\ future[q] # NoTask =>
                    /\ task'[future[q]] = task[future[q]]
                    /\ data'[future[q]] = data[future[q]]
        /\ \A k \in Keys \ {future[r]} : task'[k] = task[k] /\ data'[k] = data[k]
        /\ queue' = queue /\ worker' = worker

\* C14 as claimed: handling a request has no effect on the response of
\* another: a request handled once every other request has been answered
\* finds the cluster as if they had not been handled, and its submission
\* starts a computation of its own.
C14_LaterRequestComputesItsOwn ==
    [][\A r \in Req :
          ( /\ pc[r] = "started" /\ pc'[r] = "submitted"
            /\ \A q \in Req \ {r} : pc[q] \in {"new", "done"} )
          => task'[future'[r]] = "queued"]_vars

\* C14, amended: a step of a request's handler changes, besides that request,
\* only the Dask task of fib and the request's own n: the state, the URL, the
\* routing and the held task of every other request, the names of the kernel
\* and the listening applications stay as they were, and the only thing
\* written is the request's own body. Every request answered 200 has the body
\* its own URL determines, whatever was handled meanwhile. The task is a side
\* effect that outlasts the request: the client holds it until the handler's
\* future is released, in a later step of the event loop after a response 200
\* and never after a failure, and a request for the same n submitted
\* meanwhile shares it (its value, or its failure) and starts no computation.
\* Every task the cluster holds is held for such a request, and the release
\* of one request's future leaves the tasks other requests hold as they were.
C14_NoSideEffect ==
    [][ /\ \A r \in Req : C14_Step(r) /\ C14_Release(r)
        /\ \A q \in Req : (pc[q] = "done" /\ status[q] = 200) => body[q] = ExpectedBody(q)
        /\ \A q \in Req :
              (pc[q] = "done" /\ status[q] = 500) =>
                  (future[q] = SubmitKey(N(q)) /\ future'[q] = future[q])
        /\ \A k \in FibKeys :
              task[k] # "absent" => \E q \in Req : future[q] = k
      ]_vars

\* C14, its case: a request answered 500, its computation having raised, and
\* a request for the same n submitted after that response, answered 500 as
\* well with the failed task still held and no computation started for it.
C14_LaterRequestSharesFailure ==
    \E r, q \in Req :
        /\ r # q
        /\ Routed(r, "FibHandlerAsync") /\ pc[r] = "done" /\ status[r] = 500
        /\ Routed(q, "FibHandlerAsync") /\ pc[q] = "done" /\ status[q] = 500
        /\ N(q) = N(r)
        /\ At(<<"sent", r>>) < At(<<"submit", q>>)
        /\ future[q] = future[r] /\ task[future[q]] = "erred"
        /\ queue = <<>> /\ \A w \in Workers : worker[w] = NoTask

\* C15: on each server every /fast request is answered 200 with the same
\* text, "Hello!" on port 8000 and "Hello, world" on port 9000, whatever was
\* handled before it and whatever is outstanding.
C15_FastConstant ==
    \A r \in Req :
        (pc[r] \in {"written", "done"} /\ url[r].path = FastPath) =>
            /\ status[r] = 200
            /\ body[r] = (IF url[r].port = 8000 THEN Hello ELSE HelloWorld)
            /\ \A q \in Req :
                  ( /\ pc[q] \in {"written", "done"}
                    /\ url[q] = url[r] )
                  => body[q] = body[r]

\* C15, its case: two /fast requests to port 9000 answered, one before a /fib
\* request was fetched and one while that request is outstanding.
C15_FastBeforeAndDuringFib ==
    \E a, f, b \in Req :
        /\ a < f /\ f < b
        /\ Routed(a, "MainHandler") /\ pc[a] = "done"
        /\ Routed(b, "MainHandler") /\ pc[b] = "done"
        /\ Outstanding(f)
        /\ At(<<"sent", a>>) < At(<<"submit", f>>)
        /\ At(<<"submit", f>>) < At(<<"sent", b>>)
        /\ body[a] = body[b]

\* The file the call of read_data in progress was given, its header line and
\* the lines of data after it (blank lines are not data).
Given == FileAt(rd.filename)
HeaderOf(file) == IF NonBlank(file.lines) = <<>> THEN <<>> ELSE Head(NonBlank(file.lines))
DataOf(file) == IF NonBlank(file.lines) = <<>> THEN <<>> ELSE Tail(NonBlank(file.lines))
HeaderSet(file) == {HeaderOf(file)[j] : j \in 1..Len(HeaderOf(file))}

AllColumns == {"id", "name", "x", "y"}

\* read_data has its result: it is at `return df`.
AtReturn == rd.pc = "return"

\* C16: whatever the file, the frame read_data returns has exactly the
\* columns id, name, x and y, the structure the notebook promises and
\* dd.from_delayed is given as meta. read_data does not keep it: of a file
\* that can be read it returns the file's own columns, and adds only y.
C16_AlwaysFourColumns ==
    AtReturn => ColumnSet(rd.df) = AllColumns

\* C16, the failing case: a file with rows that lacks x and y has been read:
\* y has been added, x has not.
C16_FileWithoutXY ==
    /\ AtReturn /\ ~rd.excepted /\ rd.filled
    /\ HeaderSet(Given) = {"id", "name"}
    /\ Len(rd.df.rows) = MaxRows
    /\ ColumnSet(rd.df) = {"id", "name", "y"}

\* C17: read_data never raises: when pd.read_csv fails on the file (it is
\* empty, does not exist, or holds a value that is not of its column's dtype)
\* the exception is caught, and the result is the frame of no rows with the
\* columns id, name, x, y.
C17_ReadFailureGivesEmptyFrame ==
    /\ out.cell = "read_data" => out.ok
    /\ rd.pc = "except" => (~pd_read_csv(Given, <<>>).ok /\ ENABLED read_data_except)
    /\ rd.pc \in {"check", "return"} =>
          /\ rd.excepted <=> ~pd_read_csv(Given, <<>>).ok
          /\ (Given = Text(<<>>) \/ ~Given.exists) => rd.excepted
          /\ rd.excepted => (rd.df.rows = <<>> /\ rd.df.columns = Columns)
    /\ (rd.pc = "return" /\ rd.excepted) => ~rd.filled

\* C17, its case: read_data called on the empty file has returned the empty
\* frame to the cell.
C17_EmptyFileRead ==
    /\ rd.pc = "idle" /\ rd.excepted
    /\ Given = Text(<<>>)
    /\ out.cell = "read_data" /\ out.ok
    /\ out.frame = Frame(Columns, <<>>)

\* The value of column c in row i of the frame.
Cell(frame, i, c) == frame.rows[i][ColumnAt(frame, c)]

\* C18: of a file that can be read and has no y column, read_data returns
\* every row (every line of data of the file, in order) with the value of each
\* of the file's columns as pd.read_csv converts the file's field, and a y
\* column that is NaN in every row.
C18_MissingYFilled ==
    (AtReturn /\ ~rd.excepted /\ "y" \notin HeaderSet(Given)) =>
        /\ rd.filled
        /\ Len(rd.df.rows) = Len(DataOf(Given))
        /\ \A i \in 1..Len(rd.df.rows) :
              /\ Len(rd.df.rows[i]) = Len(rd.df.columns)
              /\ Cell(rd.df, i, "y") = NaN
              /\ \A j \in 1..Len(HeaderOf(Given)) :
                    Cell(rd.df, i, HeaderOf(Given)[j]) =
                        Convert(dtypes(HeaderOf(Given)[j]), DataOf(Given)[i][j])

\* C18, its case: the file has id, name and x and MaxRows different rows.
C18_TwoRowsWithoutY ==
    /\ AtReturn /\ ~rd.excepted
    /\ HeaderOf(Given) = <<"id", "name", "x">>
    /\ Len(rd.df.rows) = MaxRows /\ MaxRows > 1
    /\ rd.df.rows[1] # rd.df.rows[2]
    /\ rd.df.columns = <<"id", "name", "x", "y">>

\* The files as cells 13 and 14 leave them: data/2000-01-05.csv empty,
\* data/2000-01-07.csv without y, every other file of the dataset intact.
Scenario ==
    /\ Cardinality(DOMAIN fs) = NumParts
    /\ {EmptiedFile, NoYFile} \subseteq DOMAIN fs
    /\ fs[EmptiedFile] = Text(<<>>)
    /\ HeaderOf(fs[NoYFile]) = <<"id", "name", "x">>
    /\ \A f \in DOMAIN fs \ {EmptiedFile, NoYFile} :
          HeaderOf(fs[f]) = Columns /\ Len(DataOf(fs[f])) = 1

\* The partitions of the Dask dataframe d whose computation raises.
Failing(d) == {i \in 1..Len(d.files) : ~Partition(d, i).ok}

\* A cell of the given kind has just displayed its output.
Displayed(cell) == out' # out /\ out'.cell = cell

\* The files of the partitions of the Dask dataframe d.
FilesOf(d) == {d.files[i] : i \in 1..Len(d.files)}

DaysFromCivil(y, m, d) ==
    LET yy == IF m <= 2 THEN y - 1 ELSE y
        era == yy \div 400
        yoe == yy - era * 400
        mp == (m + 9) % 12
        doy == (153 * mp + 2) \div 5 + d - 1
        doe == yoe * 365 + yoe \div 4 - yoe \div 100 + doy
    IN  era * 146097 + doe - 719468

\* s is YYYY-MM-DD for the date i days after 2000-01-01.
IsIsoDateOf(s, i) ==
    /\ Len(s) = 10
    /\ s[5] = "-" /\ s[8] = "-"
    /\ \A k \in {1, 2, 3, 4, 6, 7, 9, 10} : IsDigit(s[k])
    /\ LET y == PlaceValue(SubSeq(s, 1, 4), 1)
           m == PlaceValue(SubSeq(s, 6, 7), 1)
           d == PlaceValue(SubSeq(s, 9, 10), 1)
       IN  /\ m \in 1..12 /\ d \in 1..31
           /\ DaysFromCivil(y, m, d) - DaysFromCivil(2000, 1, 1) = i

\* C20: name(i) is the ISO date of 2000-01-01 plus i days (name(0) =
\* '2000-01-01', name(10) = '2000-01-11'); for i < j the names differ and
\* name(i) sorts before name(j), so to_csv writes every partition to a file
\* of its own and the sorted files dd.read_csv lists are in partition order.
C20_NamesDistinctAndOrdered ==
    /\ name(0) = <<"2", "0", "0", "0", "-", "0", "1", "-", "0", "1">>
    /\ name(10) = <<"2", "0", "0", "0", "-", "0", "1", "-", "1", "1">>
    /\ (df.kind = "timeseries" /\ DOMAIN fs # {}) =>
          LET n == Len(df.parts)
              names == [i \in 1..n |-> name(i - 1)]
          IN  /\ Cardinality(DOMAIN fs) = n
              /\ \A i \in 1..n :
                    /\ IsIsoDateOf(names[i], i - 1)
                    /\ names[i] \in DOMAIN fs
                    /\ fs[names[i]] = to_csv(df.parts[i])
              /\ \A i, j \in 1..n :
                    i < j => (names[i] # names[j] /\ LexLess(names[i], names[j]))
    /\ df.kind = "read_csv" =>
          /\ Len(df.files) = Cardinality(DOMAIN fs)
          /\ \A i \in 1..Len(df.files) : df.files[i] = name(i - 1)

\* C20, its case: a dataset of MaxDay + 1 days, past the end of January and
\* the 29th of February, written and listed.
C20_PastFebruary ==
    /\ df.kind = "read_csv"
    /\ Len(df.files) = MaxDay + 1
    /\ df.files[32] = <<"2", "0", "0", "0", "-", "0", "2", "-", "0", "1">>
    /\ df.files[61] = <<"2", "0", "0", "0", "-", "0", "3", "-", "0", "1">>

\* C21: on the port-9000 server, under fair scheduling of the event loop and
\* of the workers, every request that has arrived is eventually answered, and
\* a handler suspended at its await eventually leaves it.
C21_EveryRequestAnswered ==
    \A r \in Req :
       /\ (pc[r] = "issued") ~> (pc[r] = "done")
       /\ (pc[r] = "awaiting") ~> (pc[r] # "awaiting")

\* C21, its case: every request was a /fib request, all were submitted before
\* any was answered, and all have been answered.
C21_AllConcurrentAnswered ==
    /\ \A r \in Req : pc[r] = "done" /\ Handler(r) = "FibHandlerAsync"
    /\ \A i \in 1..NumReq : log[i][1] = "submit"

\* Every call of fib made, directly or not, by the call fib(n).
RECURSIVE CallTree(_)
CallTree(n) == {n} \cup UNION {CallTree(m) : m \in fib_calls(n)}

\* The handler of request r has been invoked and is one of the two FibHandlers.
FibInvoked(r) ==
    /\ pc[r] \notin {"new", "issued"}
    /\ Handler(r) \in {"FibHandler", "FibHandlerAsync"}

\* C22: a FibHandler is invoked only with a parameter that is a non-empty string
\* of decimal digits, whose int is not negative; every call of fib that follows
\* from it calls fib only on smaller arguments that are not negative; and no
\* other request computes or submits fib.
C22_FibOnlyOnNaturals ==
    \A r \in Req :
       /\ FibInvoked(r) =>
             LET p == url[r].path.param IN
             /\ Len(p) > 0
             /\ \A i \in 1..Len(p) : p[i] \in {"0", "1", "2", "3", "4", "5", "6", "7", "8", "9"}
             /\ int(p) >= 0
             /\ \A m \in CallTree(int(p)) : \A c \in fib_calls(m) : 0 <= c /\ c < m
       /\ (result[r] # NoValue \/ future[r] # NoTask) => FibInvoked(r)

\* C22, its case: /fib/<MaxArgFib> answered by the blocking FibHandler with
\* fib's value, after a parameter the route does not match was answered 404.
C22_DeepRecursionAndRejected ==
    \E r, q \in Req :
       /\ pc[r] = "done" /\ Handler(r) = "FibHandler"
       /\ int(url[r].path.param) = MaxArgFib
       /\ result[r] = fib(MaxArgFib)
       /\ pc[q] = "done" /\ status[q] = 404 /\ url[q].path.param = <<"-", "1">>

\* C23: both applications and the client run on one event loop. While the
\* port-8000 FibHandler of a request is on the loop thread, the handler of no
\* other request is running, no step of another request's handler can be
\* taken (none invoked, resumed or finished, on port 9000 as on port 8000),
\* and the client can start no fetch.
C23_OneLoopForBothPorts ==
    \A f \in Req :
       Blocking(f) =>
          /\ loop = f
          /\ \A q \in Req \ {f} : ~Executing(q) /\ ~ENABLED Handlers(q)
          /\ \A r \in Req : ~ENABLED (\E u \in Urls(MaxArg) : fetch(r, u))

\* C23, its case: fib computed in the port-8000 handler while, on port 9000,
\* a /fast request waits to be invoked and a /fib handler waits to be resumed
\* with its future finished.
C23_Port9000StalledBehind8000 ==
    \E f, q, a \in Req :
       /\ Routed(f, "FibHandler") /\ pc[f] = "computed"
       /\ Routed(q, "MainHandler") /\ pc[q] = "issued"
       /\ Routed(a, "FibHandlerAsync") /\ pc[a] = "awaiting"
       /\ task[future[a]] = "finished"

\* C24: whatever cell ran last, the application listening on port 8000 is the
\* one the first cell built: a request to port 8000 is routed to FastHandler
\* or to the blocking FibHandler, which submits nothing to Dask and holds the
\* loop thread from its invocation to the end of the request; and each run of
\* a cell leaves the application of the other port as it was.
C24_Port8000KeepsFirstApp ==
    /\ apps[8000] \in {0, 1}
    /\ apps[9000] \in {0, 2}
    /\ \A r \in Req :
          (pc[r] # "new" /\ url[r].port = 8000) =>
             /\ Handler(r) = (IF url[r].path.route = "fast" THEN "FastHandler" ELSE "FibHandler")
             /\ future[r] = NoTask
             /\ pc[r] \notin {"submitted", "awaiting", "resumed"}
             /\ pc[r] \in {"started", "computed", "written"} => loop = r

\* C24, its case: both cells have run, the second one last, and both ports
\* listen; a /fib request fetched from port 8000 after that has been computed
\* in its handler, by the fib the second cell defined, while a /fast request
\* to port 8000 waits behind it.
C24_Port8000BlocksAfterSecondCell ==
    \E r, m \in Req :
       /\ r < m
       /\ defs.app = 2 /\ defs.fib = 2 /\ apps[9000] = 2
       /\ url[r].port = 8000 /\ Handler(r) = "FibHandler" /\ pc[r] = "computed"
       /\ url[m].port = 8000 /\ Handler(m) = "FastHandler" /\ pc[m] = "issued"

\* The handler class the URL of the call m of measure is routed to.
Measured(m) == make_app(AppAt(meas[m].url.port), meas[m].url.path)

\* C25: while a call of measure is starting its fetches it holds the loop
\* thread and none of its requests has been taken up, let alone answered;
\* once it awaits, exactly n requests to its URL have been fetched for it and
\* none is fetched for it later; it reaches end = time() only with all n
\* responses received, so that the duration end - start is no shorter than
\* the time to the last response: at least n single-call times for /fib on
\* port 8000 and, when no other request has been fetched, exactly n for /fib
\* on port 8000 and at least one for /fib on port 9000 (a request that joins
\* a computation already running for an earlier call waits less).
C25_MeasureFetchesAllThenAwaitsAll ==
    /\ \A m \in Meas :
          /\ \A i, j \in 1..Len(meas[m].futures) :
                i # j => meas[m].futures[i] # meas[m].futures[j]
          /\ meas[m].pc = "fetching" =>
                /\ loop = Client
                /\ Len(meas[m].futures) <= meas[m].n
                /\ \A r \in Futures(m) : pc[r] = "issued"
          /\ meas[m].pc \in {"awaiting", "ended", "raised"} =>
                /\ Len(meas[m].futures) = meas[m].n
                /\ \A r \in Futures(m) : pc[r] # "new" /\ url[r] = meas[m].url
          /\ meas[m].pc = "ended" =>
                /\ \A r \in Futures(m) :
                      pc[r] = "done" /\ status[r] = 200 /\ Count(<<"sent", r>>) = 1
                /\ meas[m].end <= clock
                /\ Measured(m) = "FibHandler" => meas[m].end - meas[m].start >= meas[m].n
                /\ (\A r \in Req \ Futures(m) : pc[r] = "new") =>
                      /\ Measured(m) = "FibHandler" => meas[m].end - meas[m].start = meas[m].n
                      /\ Measured(m) = "FibHandlerAsync" => meas[m].end - meas[m].start >= 1
    /\ \A m, o \in Meas : m # o => Futures(m) \cap Futures(o) = {}

\* C25, its case: measure of a /fib URL of port 8000 with n = NumReq has ended,
\* NumReq single-call times after it started.
C25_MeasuredAllBlocking ==
    \E m \in Meas :
        /\ meas[m].pc = "ended"
        /\ meas[m].n = NumReq
        /\ meas[m].url.port = 8000 /\ meas[m].url.path.route = "fib"
        /\ meas[m].end - meas[m].start = NumReq

\* The file is well-formed: it exists, its header is id, name, x, y and every
\* line of data has four fields, each a text of its column's dtype.
WellFormed(file) ==
    /\ file.exists
    /\ HeaderOf(file) = Columns
    /\ \A i \in 1..Len(DataOf(file)) :
          /\ Len(DataOf(file)[i]) = Len(Columns)
          /\ \A j \in 1..Len(Columns) : Convertible(dtypes(Columns[j]), DataOf(file)[i][j])

\* C26: on a well-formed file read_data takes neither the except branch nor
\* the y-filling branch, and what it returns is the file as pd.read_csv reads
\* it: the four columns in the file's order, a row for every line of data, in
\* order, each value the file's field converted to its column's dtype, and
\* every y the file gives still there (not NaN).
C26_WellFormedFileUnchanged ==
    /\ rd.pc = "except" => ~WellFormed(Given)
    /\ ((rd.pc = "return" \/ (rd.pc = "idle" /\ out.cell = "read_data")) /\ WellFormed(Given)) =>
          /\ ~rd.excepted /\ ~rd.filled
          /\ rd.df.columns = Columns
          /\ Len(rd.df.rows) = Len(DataOf(Given))
          /\ \A i \in 1..Len(rd.df.rows) :
                /\ \A j \in 1..Len(Columns) :
                      rd.df.rows[i][j] = Convert(dtypes(Columns[j]), DataOf(Given)[i][j])
                /\ DataOf(Given)[i][4] # "" => Cell(rd.df, i, "y") # NaN
          /\ rd.pc = "idle" => (out.ok /\ out.frame = rd.df)

\* C26, its case: a well-formed file of MaxRows different rows has been read
\* and returned to the cell.
C26_NormalFileReturned ==
    /\ rd.pc = "idle" /\ out.cell = "read_data"
    /\ WellFormed(Given)
    /\ Len(out.frame.rows) = MaxRows /\ MaxRows > 1
    /\ out.frame.rows[1] # out.frame.rows[2]
    /\ Cell(out.frame, 1, "y") = Value("float", "0.0")

====
